---- MODULE Spec2Model ----
(***************************************************************************)
(* Model of the backup/restore subsystem of docker_mgmt                    *)
(* (operations/docker_manager.py): DockerManager.backup_container and      *)
(* DockerManager.restore_container, one external command per step, every   *)
(* external command able to fail.                                          *)
(***************************************************************************)
EXTENDS Integers, Sequences, FiniteSets, TLC

\* ------------------------------------------------------------------ bounds
MaxCalls == 2

\* ------------------------------------------------------------- the world
CNames == {"web", "app"}
VNames == {"v1", "v2", "web", "app"}
Files == {"f1", "f2"}
States == {"absent", "running", "stopped"}
ImageName == "img"

VolumeMount(n, d) == [Type |-> "volume", Name |-> n, Source |-> "", Destination |-> d]
BindMount(s, d) == [Type |-> "bind", Name |-> "", Source |-> s, Destination |-> d]

MountChoices ==
    { <<>>,
      << BindMount("/data", "/app/data") >>,
      << VolumeMount("v1", "/d1") >>,
      << VolumeMount("v1", "/d1"), VolumeMount("v2", "/d2") >>,
      << BindMount("/data", "/app/data"), VolumeMount("v1", "/d1") >>,
      << VolumeMount("web", "/d1") >> }

\* The volumes a mount list names.
MountVolumes(mounts) ==
    { mounts[i].Name : i \in { j \in 1..Len(mounts) : mounts[j].Type = "volume" } }

\* A container name as the runtime reports it: `slashes` leading '/' and a base.
InspectName(n) == [slashes |-> 1, base |-> n]

\* The environment lists of the containers: entries without a quote character,
\* with a pair of them, with a single one.
EnvChoices == { << "X=1" >>, << "Q='a'" >>, << "Q=it's" >> }

\* The number of ' characters of an environment entry.
Quotes(str) ==
    CASE str = "Q='a'" -> 2
      [] str = "Q=it's" -> 1
      [] OTHER -> 0

\* An optional key of the inspect document: not there, there with the value
\* null, or there with a list of values (a list of one value for a scalar).
Absent == [has |-> "absent", items |-> <<>>]
Null == [has |-> "null", items |-> <<>>]
Some(items) == [has |-> "value", items |-> items]

\* A decimal text, one character per element.
P8080 == << "8", "0", "8", "0" >>
P8081 == << "8", "0", "8", "1" >>
P9090 == << "9", "0", "9", "0" >>

\* One entry of HostConfig.PortBindings: the container port (the key, as in
\* "8080/tcp") and the HostPort texts of its bindings.
Binding(port, hosts) == [port |-> port, hosts |-> hosts]

\* One entry of Config.Labels.
Label(label, value) == [label |-> label, value |-> value]

\* The output of `docker inspect <name>` for an existing container.  The
\* containers of this world differ in their mounts, environment and published
\* ports; restart policy, network mode, labels and command are the defaults
\* of the runtime and the image.
InspectOutput(n, mounts, env, ports) ==
    [kind |-> "ok", Name |-> InspectName(n), Image |-> ImageName, Mounts |-> mounts,
     Env |-> env,
     RestartPolicy |-> Some(<< "no" >>),
     PortBindings |-> Some(ports),
     NetworkMode |-> Some(<< "default" >>),
     Labels |-> Some(<<>>),
     Cmd |-> Some(<< "serve" >>),
     Entrypoint |-> Null]

NoName == [slashes |-> 0, base |-> ""]
NoConfig ==
    [kind |-> "missing", Name |-> NoName, Image |-> "", Mounts |-> <<>>, Env |-> <<>>,
     RestartPolicy |-> Absent, PortBindings |-> Absent, NetworkMode |-> Absent,
     Labels |-> Absent, Cmd |-> Absent, Entrypoint |-> Absent]
NoOutput == [NoConfig EXCEPT !.kind = "empty"]

\* A directory tree of a scratch directory or of an archive: config.json,
\* the volumes/ directory, the snapshot directories under it and their files.
EmptyData == [v \in VNames |-> {}]
NoTree == [exists |-> FALSE, config |-> NoConfig, volumes |-> FALSE, dirs |-> {}, data |-> EmptyData]
EmptyTree == [exists |-> TRUE, config |-> NoConfig, volumes |-> FALSE, dirs |-> {}, data |-> EmptyData]

\* An archive file: whether tar can extract it, and the tree it holds.
Archive(ok, tree) == [ok |-> ok, tree |-> tree]

\* The runtime and the filesystem:
\*   cstate, cmounts, cenv  the containers: run state, mount list, environment
\*   cports                 the ports each container publishes
\*   volumes, vdata         the named volumes that exist and the files they hold
\*   images                 the images pulled
\*   archives               the *.tar files of the backup directory, by path
\*   clock                  the second datetime.now() reports
\*   btemp                  /tmp/docker_backup_temp, the scratch tree of backup
\*   rtemp                  the TemporaryDirectory of restore
VARIABLES cstate, cmounts, cenv, cports, volumes, vdata, images, archives, clock, btemp, rtemp

\* One call of backup_container or restore_container: which one, the statement
\* it is at, its locals, whether an exception is propagating (exc), what it
\* returned, whether it created its scratch directory, and the external
\* commands it has run so far with their outcome (log).
VARIABLES call, pc, container_name, backup_path, output, idx, exc, result, created, log, ncalls

\* More locals of restore_container; choice is "-" until the conflict prompt
\* (316) has been answered.
VARIABLES container_info, image, todo, volume_dir, choice, new_name

\* The argument list of `docker run` as far as it is built (360), the answer
\* to the port prompt (383, "-" until asked), the position in the port
\* bindings while new ports are asked for, and the new ports accepted so far.
VARIABLES run_cmd, port_choice, bidx, new_ports

\* The snapshots imported so far with the volume each was restored into
\* (333-348): pairs <<original_volume_name, volume_name>>.
VARIABLE volume_map

\* The lines backup_container and restore_container have printed in this call.
VARIABLE console

\* The containers restore_container has created with `docker run` (436-437),
\* in order: what the arguments were built from and the arguments.
VARIABLE runs

\* Two instances of the program that were asked to back up the same container
\* at the same time: for each the statement of backup_container it is at and
\* the locals of its call (pc "none" where no such pair of calls is running).
VARIABLE procs

world == <<cstate, cmounts, cenv, cports, volumes, vdata, images, archives, clock, btemp, rtemp, runs>>
blocal == <<output, idx>>
ports_local == <<run_cmd, port_choice, bidx, new_ports>>
rlocal == <<container_info, image, todo, volume_dir, choice, new_name, run_cmd, port_choice, bidx, new_ports, volume_map>>
local == <<call, pc, container_name, backup_path, exc, result, created, log, ncalls, console, blocal, rlocal>>
vars == <<world, local, procs>>

\* ------------------------------------------------------------ helpers
\* The instances of the program of the concurrent specification.
Procs == {1, 2}

\* The locals of a call of backup_container that has not been made.
NoCall == [pc |-> "none", output |-> NoOutput, backup_path |-> <<"", 0>>, idx |-> 0,
           exc |-> FALSE, result |-> "none"]

Logged(cmd, a, ok) == Append(log, [cmd |-> cmd, arg |-> a, ok |-> ok])

\* A printed line: its fixed text and the value formatted into it.
Line(text, a) == [text |-> text, arg |-> a]

\* 276, 443: the line of the `except` block of the call
Excepted(c) == { Line(IF c = "backup" THEN "Backup failed" ELSE "Restore failed", "") }

\* The lines printed around one command: the announcement before it (233,
\* 245, 255, 259, 292, 336, 356, 436), the success line after `run` (439),
\* and the line of the `except` block where the failure of the command goes
\* straight to it (204-217, 288).
Says(cmd, a, ok) ==
    (IF cmd = "stop" THEN { Line("Stopping container for backup...", "") }
     ELSE IF cmd = "export" THEN { Line("Backing up volume", a) }
     ELSE IF cmd = "start" THEN { Line("Restarting container...", "") }
     ELSE IF cmd = "tar" THEN { Line("Creating backup archive...", "") }
     ELSE IF cmd = "extract" THEN { Line("Extracting backup...", "") }
     ELSE IF cmd = "volume_create" THEN { Line("Restoring volume", a) }
     ELSE IF cmd = "pull" THEN { Line("Pulling image", a) }
     ELSE IF cmd = "run" THEN { Line("Creating container with original configuration...", "") }
     ELSE {})
    \cup
    (IF cmd = "run" /\ ok THEN { Line("restored successfully", a) }
     ELSE IF cmd \in {"inspect", "rm_temp", "mkdir_temp"} /\ ~ok THEN Excepted("backup")
     ELSE IF cmd = "mktemp" /\ ~ok THEN Excepted("restore")
     ELSE {})

\* docker_manager.py:228 `if volumes:` (volumes is the whole Mounts list)
VolumesTruthy(mounts) == Len(mounts) > 0

\* docker_manager.py:238-240: the mounts the loop exports
IsExported(m) == m.Type = "volume" /\ m.Name # ""

\* The next index >= i of the loop at 237 whose mount is exported, or Len+1.
NextVolume(mounts, i) ==
    LET later == { j \in i..Len(mounts) : IsExported(mounts[j]) }
    IN  IF later = {} THEN Len(mounts) + 1
        ELSE CHOOSE j \in later : \A k \in later : j <= k

\* Mutant: the volume loop without its `finally`.
BackupHandler_NoFinally(step) ==
    IF step \in {"inspect", "rm_temp", "mkdir_temp"} THEN "done" ELSE "b_cleanup"

\* Mutant: the archive steps outside the `try` that removes the scratch directory.
BackupHandler_NoCleanup(step) ==
    CASE step \in {"mkdir_volume", "export"} -> "b_start"
      [] step \in {"inspect", "rm_temp", "mkdir_temp", "tar", "chown"} -> "done"
      [] OTHER -> "b_cleanup"

\* Mutant: a failed export leaves the call without the `start`.
BackupHandler_ExportNoStart(step) ==
    CASE step = "mkdir_volume" -> "b_start"
      [] step \in {"inspect", "rm_temp", "mkdir_temp"} -> "done"
      [] OTHER -> "b_cleanup"

\* Mutant: the `stop` inside the `try` whose `finally` restarts the container.
BackupHandler_StopInTry(step) ==
    CASE step \in {"stop", "mkdir_volume", "export"} -> "b_start"
      [] step \in {"inspect", "rm_temp", "mkdir_temp"} -> "done"
      [] OTHER -> "b_cleanup"

\* Mutant: a failed `start` does not keep the archive from being written.
BackupHandler_StartIgnored(step) ==
    CASE step \in {"mkdir_volume", "export"} -> "b_start"
      [] step \in {"inspect", "rm_temp", "mkdir_temp"} -> "done"
      [] step = "start" -> "b_tar"
      [] OTHER -> "b_cleanup"

\* Mutant: a `stop` that failed is tried again.
BackupHandler_RetryStop(step) ==
    CASE step \in {"mkdir_volume", "export"} -> "b_start"
      [] step \in {"inspect", "rm_temp", "mkdir_temp"} -> "done"
      [] step = "stop" -> "b_stop"
      [] OTHER -> "b_cleanup"

\* Where an exception raised by a step of backup_container is handled:
\* the `finally` of the volume loop (253-256), the `finally` of the scratch
\* directory (268-270), or the `except` of the call (275-277).
BackupHandler(step) ==
    CASE step \in {"mkdir_volume", "export"} -> "b_start"
      [] step \in {"inspect", "rm_temp", "mkdir_temp"} -> "done"
      [] OTHER -> "b_cleanup"

\* The result of a call that an exception leaves (275-277, 442-444).
Failed(step) == IF BackupHandler(step) = "done" THEN "False" ELSE "none"

\* Mutant: a helper that copies nothing.
ExportCopy_Nothing(tree, v) == tree

\* `cp -a /source/. /backup/` of the export helper (246-252) into a snapshot directory
ExportCopy(tree, v) == [tree EXCEPT !.data[v] = vdata[v]]

\* A run of one of the two copy helpers that fails leaves any part of the copy.
PartialCopy(tree, v, part) == [tree EXCEPT !.data[v] = @ \cup part]

\* Mutant: no not-found return.
IsEmptyOutput_Never(out) == FALSE

\* docker_manager.py:205 `if not output:`
IsEmptyOutput(out) == out.kind = "empty"

\* What `docker inspect <name>` can print when it exits with 0: the document
\* of an existing container; nothing for a name the runtime does not know.
InspectResults(n) ==
    IF cstate[n] = "absent" THEN {NoOutput}
    ELSE {InspectOutput(n, cmounts[n], cenv[n], cports[n])}

\* Mutant: the volume loop entered without stopping the container.
BackupNext_NoStop(step) ==
    CASE step = "inspect" -> "b_rm_temp"
      [] step = "rm_temp" -> "b_mkdir_temp"
      [] step = "mkdir_temp" -> "b_write_config"
      [] step = "mkdir_volumes" -> "b_loop"
      [] step = "stop" -> "b_loop"
      [] step = "mkdir_volume" -> "b_export"
      [] step = "export" -> "b_loop"
      [] step = "tar" -> "b_chown"
      [] step = "chown" -> "b_cleanup"

\* The statement that follows a step of backup_container that succeeded, for
\* the steps that are followed by one fixed statement (204-234, 258-270).
BackupNext(step) ==
    CASE step = "inspect" -> "b_rm_temp"
      [] step = "rm_temp" -> "b_mkdir_temp"
      [] step = "mkdir_temp" -> "b_write_config"
      [] step = "mkdir_volumes" -> "b_stop"
      [] step = "stop" -> "b_loop"
      [] step = "mkdir_volume" -> "b_export"
      [] step = "export" -> "b_loop"
      [] step = "tar" -> "b_chown"
      [] step = "chown" -> "b_cleanup"

\* Mutant: the exception of the volume loop is swallowed.
AfterStart_Swallow(raised) == "b_tar"

\* 253-258: after the `finally` of the volume loop an exception raised in the
\* loop propagates; otherwise the archive step follows.
AfterStart(raised) == IF raised THEN BackupHandler("volume_loop") ELSE "b_tar"

\* 222: bash -c "echo '<output>' > config.json". The ' characters of the
\* output end and reopen the quoting of the shell word: with an odd number of
\* them the command line does not parse and bash fails; with an even number
\* the file is written without them.
RECURSIVE QuoteCount(_)
QuoteCount(strs) == IF strs = <<>> THEN 0 ELSE Quotes(Head(strs)) + QuoteCount(Tail(strs))

ShellParses(out) == QuoteCount(out.Env) % 2 = 0

Unquoted(str) == IF str = "Q='a'" THEN "Q=a" ELSE str

WrittenConfig(out) == [out EXCEPT !.Env = [i \in DOMAIN out.Env |-> Unquoted(out.Env[i])]]

\* ------------------------------------------------------ backup_container
BackupCall(n) ==
    /\ pc = "idle"
    /\ ncalls < MaxCalls
    /\ call' = "backup"
    /\ pc' = "b_inspect"
    /\ container_name' = n
    /\ ncalls' = ncalls + 1
    /\ log' = <<>>
    /\ console' = {}
    /\ UNCHANGED <<world, output, backup_path, idx, exc, result, created, rlocal>>
    /\ UNCHANGED procs

\* 204-211: inspect, the not-found return, the timestamp and the archive path
Backup_inspect ==
    /\ pc = "b_inspect"
    /\ \E ok \in BOOLEAN, out \in InspectResults(container_name) :
         /\ log' = Logged("inspect", container_name, ok)
         /\ console' = console \cup Says("inspect", container_name, ok)
                \cup (IF ok /\ IsEmptyOutput(out) THEN { Line("not found", container_name) } ELSE {})
         /\ IF ~ok
            THEN /\ pc' = BackupHandler("inspect")
                 /\ result' = Failed("inspect")
                 /\ UNCHANGED <<output, backup_path>>
            ELSE IF IsEmptyOutput(out)
            THEN /\ pc' = "done"
                 /\ result' = "False"
                 /\ output' = out
                 /\ UNCHANGED backup_path
            ELSE /\ output' = out
                 /\ backup_path' = <<container_name, clock>>
                 /\ pc' = BackupNext("inspect")
                 /\ UNCHANGED result
    /\ UNCHANGED <<world, call, container_name, idx, exc, created, ncalls, rlocal>>
    /\ UNCHANGED procs

\* 215: sudo rm -rf /tmp/docker_backup_temp
Backup_rm_temp ==
    /\ pc = "b_rm_temp"
    /\ \E ok \in BOOLEAN :
         /\ log' = Logged("rm_temp", "", ok)
         /\ console' = console \cup Says("rm_temp", "", ok)
         /\ IF ok
            THEN /\ btemp' = NoTree
                 /\ pc' = BackupNext("rm_temp")
                 /\ UNCHANGED result
            ELSE /\ pc' = BackupHandler("rm_temp")
                 /\ result' = Failed("rm_temp")
                 /\ UNCHANGED btemp
    /\ UNCHANGED <<cstate, cmounts, cenv, cports, volumes, vdata, images, archives, clock, rtemp>>
    /\ UNCHANGED <<call, container_name, output, backup_path, idx, exc, created, ncalls, rlocal>>
    /\ UNCHANGED <<runs, procs>>

\* 216-217: sudo mkdir -p /tmp/docker_backup_temp
Backup_mkdir_temp ==
    /\ pc = "b_mkdir_temp"
    /\ \E ok \in BOOLEAN :
         /\ log' = Logged("mkdir_temp", "", ok)
         /\ console' = console \cup Says("mkdir_temp", "", ok)
         /\ IF ok
            THEN /\ btemp' = EmptyTree
                 /\ created' = TRUE
                 /\ pc' = BackupNext("mkdir_temp")
                 /\ UNCHANGED result
            ELSE /\ pc' = BackupHandler("mkdir_temp")
                 /\ result' = Failed("mkdir_temp")
                 /\ UNCHANGED <<btemp, created>>
    /\ UNCHANGED <<cstate, cmounts, cenv, cports, volumes, vdata, images, archives, clock, rtemp>>
    /\ UNCHANGED <<call, container_name, output, backup_path, idx, exc, ncalls, rlocal>>
    /\ UNCHANGED <<runs, procs>>

\* 219-228: write config.json, read the mount list, choose the volume branch
Backup_write_config ==
    /\ pc = "b_write_config"
    /\ \E ok \in BOOLEAN :
         /\ ok => ShellParses(output)
         /\ log' = Logged("write_config", "", ok)
         /\ console' = console \cup Says("write_config", "", ok)
         /\ IF ok
            THEN /\ btemp' = [btemp EXCEPT !.config = WrittenConfig(output)]
                 /\ idx' = 1
                 /\ pc' = IF VolumesTruthy(output.Mounts) THEN "b_mkdir_volumes" ELSE "b_tar"
                 /\ UNCHANGED exc
            ELSE /\ pc' = BackupHandler("write_config")
                 /\ exc' = TRUE
                 /\ UNCHANGED <<btemp, idx>>
    /\ UNCHANGED <<cstate, cmounts, cenv, cports, volumes, vdata, images, archives, clock, rtemp>>
    /\ UNCHANGED <<call, container_name, output, backup_path, result, created, ncalls, rlocal>>
    /\ UNCHANGED <<runs, procs>>

\* 229-230: sudo mkdir -p <scratch>/volumes
Backup_mkdir_volumes ==
    /\ pc = "b_mkdir_volumes"
    /\ \E ok \in BOOLEAN :
         /\ log' = Logged("mkdir_volumes", "", ok)
         /\ console' = console \cup Says("mkdir_volumes", "", ok)
         /\ IF ok
            THEN /\ btemp' = [btemp EXCEPT !.volumes = TRUE]
                 /\ pc' = BackupNext("mkdir_volumes")
                 /\ UNCHANGED exc
            ELSE /\ pc' = BackupHandler("mkdir_volumes")
                 /\ exc' = TRUE
                 /\ UNCHANGED btemp
    /\ UNCHANGED <<cstate, cmounts, cenv, cports, volumes, vdata, images, archives, clock, rtemp>>
    /\ UNCHANGED <<call, container_name, output, backup_path, idx, result, created, ncalls, rlocal>>
    /\ UNCHANGED <<runs, procs>>

\* 232-234: docker stop <container>
Backup_stop ==
    /\ pc = "b_stop"
    /\ \E ok \in BOOLEAN :
         /\ log' = Logged("stop", container_name, ok)
         /\ console' = console \cup Says("stop", container_name, ok)
         /\ IF ok
            THEN /\ cstate' = [cstate EXCEPT ![container_name] = "stopped"]
                 /\ pc' = BackupNext("stop")
                 /\ UNCHANGED exc
            ELSE /\ pc' = BackupHandler("stop")
                 /\ exc' = TRUE
                 /\ UNCHANGED cstate
    /\ UNCHANGED <<cmounts, cenv, cports, volumes, vdata, images, archives, clock, btemp, rtemp>>
    /\ UNCHANGED <<call, container_name, output, backup_path, idx, result, created, ncalls, rlocal>>
    /\ UNCHANGED <<runs, procs>>

\* 236-240: the head of the loop over the mounts: on to the next mount that
\* is exported, or out of the loop into its `finally`
Backup_loop ==
    /\ pc = "b_loop"
    /\ idx' = NextVolume(output.Mounts, idx)
    /\ pc' = IF idx' > Len(output.Mounts) THEN "b_start" ELSE "b_mkdir_volume"
    /\ UNCHANGED <<world, call, container_name, backup_path, output, exc, result, created, log, ncalls, rlocal>>
    /\ UNCHANGED console
    /\ UNCHANGED procs

\* 241-242: sudo mkdir -p <scratch>/volumes/<volume>
Backup_mkdir_volume ==
    /\ pc = "b_mkdir_volume"
    /\ \E ok \in BOOLEAN :
         /\ log' = Logged("mkdir_volume", output.Mounts[idx].Name, ok)
         /\ console' = console \cup Says("mkdir_volume", output.Mounts[idx].Name, ok)
         /\ IF ok
            THEN /\ btemp' = [btemp EXCEPT !.dirs = @ \cup {output.Mounts[idx].Name}]
                 /\ pc' = BackupNext("mkdir_volume")
                 /\ UNCHANGED exc
            ELSE /\ pc' = BackupHandler("mkdir_volume")
                 /\ exc' = TRUE
                 /\ UNCHANGED btemp
    /\ UNCHANGED <<cstate, cmounts, cenv, cports, volumes, vdata, images, archives, clock, rtemp>>
    /\ UNCHANGED <<call, container_name, output, backup_path, idx, result, created, ncalls, rlocal>>
    /\ UNCHANGED <<runs, procs>>

\* 244-252: the export helper container of one volume, then the next mount
Backup_export ==
    /\ pc = "b_export"
    /\ LET v == output.Mounts[idx].Name IN
       \E ok \in BOOLEAN, part \in SUBSET vdata[v] :
         /\ ok => part = {}
         /\ log' = Logged("export", v, ok)
         /\ console' = console \cup Says("export", v, ok)
         /\ IF ok
            THEN /\ btemp' = ExportCopy(btemp, v)
                 /\ idx' = idx + 1
                 /\ pc' = BackupNext("export")
                 /\ UNCHANGED exc
            ELSE /\ btemp' = PartialCopy(btemp, v, part)
                 /\ pc' = BackupHandler("export")
                 /\ exc' = TRUE
                 /\ UNCHANGED idx
    /\ UNCHANGED <<cstate, cmounts, cenv, cports, volumes, vdata, images, archives, clock, rtemp>>
    /\ UNCHANGED <<call, container_name, output, backup_path, result, created, ncalls, rlocal>>
    /\ UNCHANGED <<runs, procs>>

\* 253-256: the `finally` of the volume loop: docker start <container>
Backup_start ==
    /\ pc = "b_start"
    /\ \E ok \in BOOLEAN :
         /\ log' = Logged("start", container_name, ok)
         /\ console' = console \cup Says("start", container_name, ok)
         /\ IF ok
            THEN /\ cstate' = [cstate EXCEPT ![container_name] = "running"]
                 /\ pc' = AfterStart(exc)
                 /\ UNCHANGED exc
            ELSE /\ pc' = BackupHandler("start")
                 /\ exc' = TRUE
                 /\ UNCHANGED cstate
    /\ UNCHANGED <<cmounts, cenv, cports, volumes, vdata, images, archives, clock, btemp, rtemp>>
    /\ UNCHANGED <<call, container_name, output, backup_path, idx, result, created, ncalls, rlocal>>
    /\ UNCHANGED <<runs, procs>>

\* 258-263: sudo tar -czf <backup_dir>/<container>_<timestamp>.tar -C <scratch> .
\* tar writes to the final path: a run that fails leaves nothing or a partial file.
Backup_tar ==
    /\ pc = "b_tar"
    /\ \E ok \in BOOLEAN, partial \in BOOLEAN :
         /\ ok => ~partial
         /\ log' = Logged("tar", "", ok)
         /\ console' = console \cup Says("tar", "", ok)
         /\ IF ok
            THEN /\ archives' = (backup_path :> Archive(TRUE, btemp)) @@ archives
                 /\ pc' = BackupNext("tar")
                 /\ UNCHANGED exc
            ELSE /\ archives' = IF partial
                                THEN (backup_path :> Archive(FALSE, btemp)) @@ archives
                                ELSE archives
                 /\ pc' = BackupHandler("tar")
                 /\ exc' = TRUE
    /\ UNCHANGED <<cstate, cmounts, cenv, cports, volumes, vdata, images, clock, btemp, rtemp>>
    /\ UNCHANGED <<call, container_name, output, backup_path, idx, result, created, ncalls, rlocal>>
    /\ UNCHANGED <<runs, procs>>

\* 265-266: sudo chown <uid>:<gid> <archive>
Backup_chown ==
    /\ pc = "b_chown"
    /\ \E ok \in BOOLEAN :
         /\ log' = Logged("chown", "", ok)
         /\ console' = console \cup Says("chown", "", ok)
         /\ pc' = IF ok THEN BackupNext("chown") ELSE BackupHandler("chown")
         /\ exc' = ~ok
    /\ UNCHANGED <<world, call, container_name, output, backup_path, idx, result, created, ncalls, rlocal>>
    /\ UNCHANGED procs

\* 268-277: the `finally` of the scratch directory (sudo rm -rf), then the
\* success return or the `except` of the call
Backup_cleanup ==
    /\ pc = "b_cleanup"
    /\ \E ok \in BOOLEAN :
         /\ log' = Logged("cleanup", "", ok)
         /\ console' = console \cup
                (IF ok /\ ~exc THEN { Line("Backup created", "") } ELSE Excepted("backup"))
         /\ btemp' = IF ok THEN NoTree ELSE btemp
         /\ result' = IF ok /\ ~exc THEN "True" ELSE "False"
         /\ pc' = "done"
    /\ UNCHANGED <<cstate, cmounts, cenv, cports, volumes, vdata, images, archives, clock, rtemp>>
    /\ UNCHANGED <<call, container_name, output, backup_path, idx, exc, created, ncalls, rlocal>>
    /\ UNCHANGED <<runs, procs>>

\* ----------------------------------------------------- restore_container
\* Mutant: a failed pull is tolerated and the container is created anyway.
RestoreHandler_IgnorePull(step) ==
    IF step \in {"exists", "mktemp"} THEN "done"
    ELSE IF step = "pull" THEN "r_run"
    ELSE "r_cleanup"

\* 288-444: where an exception raised by a step of restore_container goes:
\* out of the `with` block (which removes the scratch directory) to `except`
RestoreHandler(step) ==
    IF step \in {"exists", "mktemp"} THEN "done" ELSE "r_cleanup"

\* Mutant: the `except` block reports nothing, the call returns what it had.
RestoreResult_Swallow(raised, res) == res

\* 440-444: the value restore_container returns: False once an exception has
\* reached the `except` block
RestoreResult(raised, res) == IF raised THEN "False" ELSE res

\* Mutant: the image is looked up only where it is used, after `ps`.
Decodable_LateImage(cfg) == cfg.kind \in {"ok", "noimage"}

\* 304-306: json.loads(...)[0], ['Name'] and ['Config']['Image'] all succeed
Decodable(cfg) == cfg.kind = "ok"

\* Mutant: a missing config.json is reported but restore goes on.
ConfigStep_NoReturn(cfg) ==
    IF cfg.kind \in {"ok", "missing"} THEN "r_ps" ELSE "r_cleanup"

\* 298-308: where restore goes after the extraction: the return for a missing
\* config.json, the exception of a document that does not decode, or `ps`
ConfigStep(cfg) ==
    IF cfg.kind = "missing" THEN "r_cleanup"
    ELSE IF ~Decodable(cfg) THEN RestoreHandler("decode")
    ELSE "r_ps"

\* 305: str.lstrip('/') of a reported name
Lstrip(name) == name.base

\* 310: `container_name in existing.splitlines()` over the names `ps -a` lists
Existing == { n \in CNames : cstate[n] # "absent" }

\* 329-332: the loop over the snapshot directories runs if volumes/ exists
VolumeLoop(tree) == IF tree.volumes /\ tree.dirs # {} THEN "r_volume_create" ELSE "r_pull"

\* What the user can type at the prompt of 316.
Choices == {"1", "2", "3", ""}

\* Mutant: only "2" and "3" are tested, every other input removes the container.
ConflictStep_DefaultRemove(c, n) ==
    IF c = "2" /\ n # "" THEN "r_rename"
    ELSE IF c \in {"2", "3"} THEN "r_cleanup"
    ELSE "r_rm"

\* Mutant: an empty new name is accepted.
ConflictStep_AnyName(c, n) ==
    IF c = "1" THEN "r_rm"
    ELSE IF c = "2" THEN "r_rename"
    ELSE "r_cleanup"

\* 317-326: what follows the answers to the conflict prompts: `rm -f`, the
\* restore under the new name, or the return of False
ConflictStep(c, n) ==
    IF c = "1" THEN "r_rm"
    ELSE IF c = "2" /\ n # "" THEN "r_rename"
    ELSE "r_cleanup"

\* 335: the name a snapshot is restored under
VolumeName(original_volume_name) ==
    IF container_name # Lstrip(container_info.Name) THEN container_name
    ELSE original_volume_name

\* Mutant: the mounts keep the name of the snapshot.
RenameMounts_None(mounts, original_volume_name, volume_name) == mounts

\* 350-353: substitute the restored name in the mounts of the document
RenameMounts(mounts, original_volume_name, volume_name) ==
    [i \in 1..Len(mounts) |->
        IF mounts[i].Type = "volume" /\ mounts[i].Name = original_volume_name
        THEN [mounts[i] EXCEPT !.Name = volume_name]
        ELSE mounts[i]]

MissingPath == <<"missing", 0>>

RestoreCall(p) ==
    /\ pc = "idle"
    /\ ncalls < MaxCalls
    /\ call' = "restore"
    /\ pc' = "r_exists"
    /\ backup_path' = p
    /\ ncalls' = ncalls + 1
    /\ log' = <<>>
    /\ console' = {}
    /\ UNCHANGED <<world, container_name, exc, result, created, blocal, rlocal>>
    /\ UNCHANGED procs

\* 282-285: the backup file must exist
Restore_exists ==
    /\ pc = "r_exists"
    /\ IF backup_path \in DOMAIN archives
       THEN pc' = "r_mktemp" /\ UNCHANGED result
       ELSE pc' = RestoreHandler("exists") /\ result' = "False"
    /\ console' = console \cup
           (IF backup_path \in DOMAIN archives THEN {}
            ELSE { Line("Backup file not found", "") })
    /\ UNCHANGED <<world, call, container_name, backup_path, exc, created, log, ncalls, blocal, rlocal>>
    /\ UNCHANGED procs

\* 287-289: tempfile.TemporaryDirectory()
Restore_mktemp ==
    /\ pc = "r_mktemp"
    /\ \E ok \in BOOLEAN :
         /\ log' = Logged("mktemp", "", ok)
         /\ console' = console \cup Says("mktemp", "", ok)
         /\ IF ok
            THEN /\ rtemp' = EmptyTree
                 /\ created' = TRUE
                 /\ pc' = "r_extract"
                 /\ UNCHANGED result
            ELSE /\ pc' = RestoreHandler("mktemp")
                 /\ result' = "False"
                 /\ UNCHANGED <<rtemp, created>>
    /\ UNCHANGED <<cstate, cmounts, cenv, cports, volumes, vdata, images, archives, clock, btemp>>
    /\ UNCHANGED <<call, container_name, backup_path, exc, ncalls, blocal, rlocal>>
    /\ UNCHANGED <<runs, procs>>

\* 291-296: tar -xzf <backup_file> -C <scratch>
Restore_extract ==
    /\ pc = "r_extract"
    /\ \E ok \in BOOLEAN :
         /\ ok => archives[backup_path].ok
         /\ log' = Logged("extract", "", ok)
         /\ console' = console \cup Says("extract", "", ok)
         /\ IF ok
            THEN /\ rtemp' = archives[backup_path].tree
                 /\ pc' = "r_config"
                 /\ UNCHANGED exc
            ELSE /\ pc' = RestoreHandler("extract")
                 /\ exc' = TRUE
                 /\ UNCHANGED rtemp
    /\ UNCHANGED <<cstate, cmounts, cenv, cports, volumes, vdata, images, archives, clock, btemp>>
    /\ UNCHANGED <<call, container_name, backup_path, result, created, ncalls, blocal, rlocal>>
    /\ UNCHANGED <<runs, procs>>

\* 298-306: config.json must exist; decode it, take the name and the image
Restore_config ==
    /\ pc = "r_config"
    /\ pc' = ConfigStep(rtemp.config)
    /\ IF rtemp.config.kind = "missing"
       THEN /\ result' = "False"
            /\ UNCHANGED <<exc, container_info, container_name, image>>
       ELSE IF ~Decodable(rtemp.config)
       THEN /\ exc' = TRUE
            /\ UNCHANGED <<result, container_info, container_name, image>>
       ELSE /\ container_info' = rtemp.config
            /\ container_name' = Lstrip(rtemp.config.Name)
            /\ image' = rtemp.config.Image
            /\ UNCHANGED <<result, exc>>
    /\ console' = console \cup
           (IF rtemp.config.kind = "missing"
            THEN { Line("Invalid backup: missing configuration", "") } ELSE {})
    /\ UNCHANGED <<world, call, backup_path, created, log, ncalls, blocal, todo, volume_dir, choice, new_name, ports_local, volume_map>>
    /\ UNCHANGED procs

\* 308-310, 328-331: docker ps -a, the conflict test, else on to the volumes
Restore_ps ==
    /\ pc = "r_ps"
    /\ \E ok \in BOOLEAN :
         /\ log' = Logged("ps", "", ok)
         /\ console' = console \cup Says("ps", "", ok)
         /\ IF ok
            THEN /\ pc' = IF container_name \in Existing THEN "r_conflict" ELSE VolumeLoop(rtemp)
                 /\ todo' = rtemp.dirs
                 /\ UNCHANGED exc
            ELSE /\ pc' = RestoreHandler("ps")
                 /\ exc' = TRUE
                 /\ UNCHANGED todo
    /\ UNCHANGED <<world, call, container_name, backup_path, result, created, ncalls, blocal>>
    /\ UNCHANGED <<container_info, image, volume_dir, choice, new_name, ports_local, volume_map>>
    /\ UNCHANGED procs

\* 311-326: the three offered resolutions of a name conflict
Restore_conflict ==
    /\ pc = "r_conflict"
    /\ \E c \in Choices, n \in {""} \cup CNames :
         /\ (c # "2") => n = ""
         /\ choice' = c
         /\ new_name' = n
         /\ pc' = ConflictStep(c, n)
         /\ container_name' = IF ConflictStep(c, n) = "r_rename" THEN n ELSE container_name
         /\ result' = IF ConflictStep(c, n) = "r_cleanup" THEN "False" ELSE result
         /\ console' = console \cup { Line("already exists", container_name) }
                \cup (IF c = "2" /\ n = "" THEN { Line("Invalid name", "") } ELSE {})
    /\ UNCHANGED <<world, call, backup_path, exc, created, log, ncalls, blocal>>
    /\ UNCHANGED <<container_info, image, todo, volume_dir, ports_local, volume_map>>
    /\ UNCHANGED procs

\* 324, 328-331: the restore goes on under the new name
Restore_rename ==
    /\ pc = "r_rename"
    /\ pc' = VolumeLoop(rtemp)
    /\ UNCHANGED <<world, call, container_name, backup_path, exc, result, created, log, ncalls, blocal, rlocal>>
    /\ UNCHANGED console
    /\ UNCHANGED procs

\* 318: docker rm -f <container>
Restore_rm ==
    /\ pc = "r_rm"
    /\ \E ok \in BOOLEAN :
         /\ log' = Logged("rm", container_name, ok)
         /\ console' = console \cup Says("rm", container_name, ok)
         /\ IF ok
            THEN /\ cstate' = [cstate EXCEPT ![container_name] = "absent"]
                 /\ cmounts' = [cmounts EXCEPT ![container_name] = <<>>]
                 /\ cenv' = [cenv EXCEPT ![container_name] = <<>>]
                 /\ cports' = [cports EXCEPT ![container_name] = <<>>]
                 /\ pc' = VolumeLoop(rtemp)
                 /\ UNCHANGED exc
            ELSE /\ pc' = RestoreHandler("rm")
                 /\ exc' = TRUE
                 /\ UNCHANGED <<cstate, cmounts, cenv, cports>>
    /\ UNCHANGED <<volumes, vdata, images, archives, clock, btemp, rtemp>>
    /\ UNCHANGED <<call, container_name, backup_path, result, created, ncalls, blocal, rlocal>>
    /\ UNCHANGED <<runs, procs>>

\* 331-339: the next snapshot directory (in directory order), docker volume create
Restore_volume_create ==
    /\ pc = "r_volume_create"
    /\ \E ok \in BOOLEAN, d \in todo :
         /\ volume_dir' = d
         /\ log' = Logged("volume_create", VolumeName(d), ok)
         /\ console' = console \cup Says("volume_create", VolumeName(d), ok)
         /\ IF ok
            THEN /\ volumes' = volumes \cup {VolumeName(d)}
                 /\ pc' = "r_import"
                 /\ UNCHANGED exc
            ELSE /\ pc' = RestoreHandler("volume_create")
                 /\ exc' = TRUE
                 /\ UNCHANGED volumes
    /\ UNCHANGED <<cstate, cmounts, cenv, cports, vdata, images, archives, clock, btemp, rtemp>>
    /\ UNCHANGED <<call, container_name, backup_path, result, created, ncalls, blocal>>
    /\ UNCHANGED <<container_info, image, todo, choice, new_name, ports_local, volume_map>>
    /\ UNCHANGED <<runs, procs>>

\* 341-353: the import helper container of one snapshot, the renamed mounts,
\* then the next snapshot directory
Restore_import ==
    /\ pc = "r_import"
    /\ LET vn == VolumeName(volume_dir) IN
       \E ok \in BOOLEAN, part \in SUBSET rtemp.data[volume_dir] :
         /\ ok => part = rtemp.data[volume_dir]
         /\ log' = Logged("import", vn, ok)
         /\ console' = console \cup Says("import", vn, ok)
         /\ vdata' = [vdata EXCEPT ![vn] = @ \cup part]
         /\ IF ok
            THEN /\ container_info' =
                      [container_info EXCEPT !.Mounts = RenameMounts(@, volume_dir, vn)]
                 /\ todo' = todo \ {volume_dir}
                 /\ volume_map' = volume_map \cup { <<volume_dir, vn>> }
                 /\ pc' = IF todo' = {} THEN "r_pull" ELSE "r_volume_create"
                 /\ UNCHANGED exc
            ELSE /\ pc' = RestoreHandler("import")
                 /\ exc' = TRUE
                 /\ UNCHANGED <<container_info, todo, volume_map>>
    /\ UNCHANGED <<cstate, cmounts, cenv, cports, volumes, images, archives, clock, btemp, rtemp>>
    /\ UNCHANGED <<call, container_name, backup_path, result, created, ncalls, blocal>>
    /\ UNCHANGED <<image, volume_dir, choice, new_name, ports_local>>
    /\ UNCHANGED <<runs, procs>>

\* ---------------------------------------------- the arguments of `run`
\* One option of the argument list with its value: `kind` is the flag (or
\* "image" / "cmd" for the positional arguments), the value is x, or x:y
\* (-v), x=y (--label), or host:y (-p), host being a decimal text.
Arg(kind, x, y) == [kind |-> kind, x |-> x, y |-> y, host |-> <<>>]
PortArg(host, port) == [kind |-> "-p", x |-> "", y |-> port, host |-> host]

\* Mutant: the name argument carries a counter of the calls made so far.
NameArgs_Counted(name) ==
    << Arg("run", "", ""), Arg("-d", "", ""), Arg("--name", name, IF ncalls > 1 THEN "again" ELSE "") >>

\* 298-306, 308-326, 335, 376-402: what the arguments of `run` are built
\* from: the decoded document of the archive, the name the container is
\* restored under, the answer to the port prompt with the ports typed in,
\* and the volume names the snapshots were imported into
RunInputs ==
    [doc |-> archives[backup_path].tree.config,
     name |-> container_name,
     policy |-> port_choice,
     ports |-> new_ports,
     map |-> volume_map]

\* 360: run_cmd = ['run', '-d', '--name', container_name]
NameArgs(name) == << Arg("run", "", ""), Arg("-d", "", ""), Arg("--name", name, "") >>

\* 364-365: policy.get('Name') raises AttributeError when the RestartPolicy
\* of the document is null
RestartRaises(info) == info.RestartPolicy.has = "null"

\* 425: .items() raises AttributeError when the Labels of the document are
\* null; 420, 437: a null NetworkMode is appended as None, which
\* subprocess.run refuses with TypeError before the command is started
TailRaises(info) == info.Labels.has = "null" \/ info.NetworkMode.has = "null"

\* 362-366: --restart <Name> when the policy has a non-empty name
RestartArgs(policy) ==
    IF policy.has = "value" /\ policy.items # <<>> /\ policy.items[1] # ""
    THEN << Arg("--restart", policy.items[1], "") >>
    ELSE <<>>

\* 373-374, 387-388, 392-393: the (container port, host binding) pairs of the
\* port bindings in the order the two nested loops visit them
RECURSIVE HostBindings(_)
HostBindings(items) ==
    IF items = <<>> THEN <<>>
    ELSE [i \in DOMAIN Head(items).hosts |->
             [port |-> Head(items).port, host |-> Head(items).hosts[i]]]
         \o HostBindings(Tail(items))

\* Mutant: the host port is left out of the flag.
OriginalPortArgs_NoHost(items) ==
    [i \in DOMAIN HostBindings(items) |->
        PortArg(<<>>, HostBindings(items)[i].port)]

\* Mutant: one flag per container port, its first binding only.
OriginalPortArgs_FirstOnly(items) ==
    [i \in DOMAIN items |-> PortArg(items[i].hosts[1], items[i].port)]

\* 385-390: -p <HostPort>:<container port> for every binding
OriginalPortArgs(items) ==
    [i \in DOMAIN HostBindings(items) |->
        PortArg(HostBindings(items)[i].host, HostBindings(items)[i].port)]

\* 404-410: -v <Name>:<Destination> for a volume, -v <Source>:<Destination>
\* for a bind mount, nothing for a mount of another type
MountArgs(mounts) ==
    LET ms == SelectSeq(mounts, LAMBDA m : m.Type \in {"volume", "bind"})
    IN  [i \in DOMAIN ms |->
            Arg("-v", IF ms[i].Type = "volume" THEN ms[i].Name ELSE ms[i].Source,
                ms[i].Destination)]

\* 412-415: -e <entry>
EnvArgs(env) == [i \in DOMAIN env |-> Arg("-e", env[i], "")]

\* Mutant: the network mode is passed on whatever it is.
NetworkArgs_Always(mode) ==
    IF mode.has = "value" THEN << Arg("--network", mode.items[1], "") >> ELSE <<>>

\* 417-421: --network <mode> unless the mode is 'default'
NetworkArgs(mode) ==
    IF mode.has = "value" /\ mode.items[1] # "default"
    THEN << Arg("--network", mode.items[1], "") >>
    ELSE <<>>

\* 423-426: --label <label>=<value>
LabelArgs(labels) ==
    [i \in DOMAIN labels.items |-> Arg("--label", labels.items[i].label, labels.items[i].value)]

\* 431-433: the command words after the image
CmdArgs(cmd) == [i \in DOMAIN cmd.items |-> Arg("cmd", cmd.items[i], "")]

\* Mutant: the environment is added before the mounts.
TailArgs_EnvFirst(info, img) ==
    EnvArgs(info.Env) \o MountArgs(info.Mounts) \o NetworkArgs(info.NetworkMode)
    \o LabelArgs(info.Labels) \o << Arg("image", img, "") >> \o CmdArgs(info.Cmd)

\* 404-433: what is appended to run_cmd after the ports
TailArgs(info, img) ==
    MountArgs(info.Mounts) \o EnvArgs(info.Env) \o NetworkArgs(info.NetworkMode)
    \o LabelArgs(info.Labels) \o << Arg("image", img, "") >> \o CmdArgs(info.Cmd)

\* The ports a container created with these arguments publishes.
Published(args) ==
    LET ps == SelectSeq(args, LAMBDA a : a.kind = "-p")
    IN  [i \in DOMAIN ps |-> Binding(ps[i].y, << ps[i].host >>)]

\* What the user can type at the port prompt (383).
PortChoices == {"1", "2", "3", ""}

\* What the user can type when asked for a new port (396).
PortInputs ==
    { P8081, P9090, << "0" >>, << "7", "0", "0", "0", "0" >>, << "a" >>, <<>>,
      << "superscript 2" >> }

\* The value int() gives a decimal digit; str.isdigit() also accepts digit
\* characters that int() rejects.
DigitValue ==
    [c \in {"0", "1", "2", "3", "4", "5", "6", "7", "8", "9"} |->
        CASE c = "0" -> 0 [] c = "1" -> 1 [] c = "2" -> 2 [] c = "3" -> 3 [] c = "4" -> 4
          [] c = "5" -> 5 [] c = "6" -> 6 [] c = "7" -> 7 [] c = "8" -> 8 [] c = "9" -> 9]
DigitChars == DOMAIN DigitValue \cup {"superscript 2"}

\* 397: new_port.isdigit()
IsDigit(text) == text # <<>> /\ \A i \in DOMAIN text : text[i] \in DigitChars

\* 397: whether int(new_port) raises ValueError
IntRaises(text) == \E i \in DOMAIN text : text[i] \notin DOMAIN DigitValue

\* 397: int(new_port)
RECURSIVE IntOf(_)
IntOf(text) ==
    IF text = <<>> THEN 0
    ELSE 10 * IntOf(SubSeq(text, 1, Len(text) - 1)) + DigitValue[text[Len(text)]]

MinPort == 1
MaxPort == 65535

\* 397: the test a new port has to pass
ValidPort(text) == IsDigit(text) /\ MinPort <= IntOf(text) /\ IntOf(text) <= MaxPort

\* 385-402: where the answer to the port prompt leads: the new-port prompts
\* for "2" (when there is a binding to ask for), else on to the rest
PortStep(c, items) ==
    IF c = "2" /\ HostBindings(items) # <<>> THEN "r_new_port" ELSE "r_run"

\* 368-371: the port prompt is shown for a non-empty PortBindings
AfterPull(info) ==
    IF info.PortBindings.has = "value" /\ info.PortBindings.items # <<>>
    THEN "r_port_choice" ELSE "r_run"

\* 355-366: docker pull <image>, then the first arguments of `run`
Restore_pull ==
    /\ pc = "r_pull"
    /\ \E ok \in BOOLEAN :
         /\ log' = Logged("pull", image, ok)
         /\ console' = console \cup Says("pull", image, ok)
         /\ IF ok /\ RestartRaises(container_info)
            THEN /\ images' = images \cup {image}
                 /\ run_cmd' = NameArgs(container_name)
                 /\ pc' = RestoreHandler("restart")
                 /\ exc' = TRUE
            ELSE IF ok
            THEN /\ images' = images \cup {image}
                 /\ run_cmd' = NameArgs(container_name) \o RestartArgs(container_info.RestartPolicy)
                 /\ pc' = AfterPull(container_info)
                 /\ UNCHANGED exc
            ELSE /\ pc' = RestoreHandler("pull")
                 /\ exc' = TRUE
                 /\ UNCHANGED <<images, run_cmd>>
    /\ UNCHANGED <<cstate, cmounts, cenv, cports, volumes, vdata, archives, clock, btemp, rtemp>>
    /\ UNCHANGED <<call, container_name, backup_path, result, created, ncalls, blocal>>
    /\ UNCHANGED <<container_info, image, todo, volume_dir, choice, new_name, port_choice, bidx, new_ports, volume_map>>
    /\ UNCHANGED <<runs, procs>>

\* 371-390: the port mappings are listed and the user chooses what to do
\* with them; "1" adds the original ports
Restore_port_choice ==
    /\ pc = "r_port_choice"
    /\ \E c \in PortChoices :
         /\ port_choice' = c
         /\ run_cmd' = IF c = "1"
                        THEN run_cmd \o OriginalPortArgs(container_info.PortBindings.items)
                        ELSE run_cmd
         /\ pc' = PortStep(c, container_info.PortBindings.items)
         /\ bidx' = IF PortStep(c, container_info.PortBindings.items) = "r_new_port" THEN 1 ELSE bidx
    /\ console' = console \cup { Line("Container port mappings:", "") }
    /\ UNCHANGED <<world, call, container_name, backup_path, exc, result, created, log, ncalls, blocal>>
    /\ UNCHANGED <<container_info, image, todo, volume_dir, choice, new_name, new_ports, volume_map>>
    /\ UNCHANGED procs

\* 391-401: one answer to the prompt for the new port of one binding: a valid
\* port is added and the next binding is asked for, an invalid one is
\* refused and asked for again; int() raises on a digit it cannot convert
Restore_new_port ==
    /\ pc = "r_new_port"
    /\ \E new_port \in PortInputs :
         LET bs == HostBindings(container_info.PortBindings.items) IN
         IF IsDigit(new_port) /\ IntRaises(new_port)
         THEN /\ pc' = RestoreHandler("new_port")
              /\ exc' = TRUE
              /\ UNCHANGED <<run_cmd, bidx, new_ports, console>>
         ELSE IF ValidPort(new_port)
         THEN /\ run_cmd' = Append(run_cmd, PortArg(new_port, bs[bidx].port))
              /\ new_ports' = Append(new_ports, new_port)
              /\ bidx' = bidx + 1
              /\ pc' = IF bidx = Len(bs) THEN "r_run" ELSE "r_new_port"
              /\ UNCHANGED <<exc, console>>
         ELSE /\ console' = console \cup { Line("Invalid port number", "") }
              /\ UNCHANGED <<pc, exc, run_cmd, bidx, new_ports>>
    /\ UNCHANGED <<world, call, container_name, backup_path, result, created, log, ncalls, blocal>>
    /\ UNCHANGED <<container_info, image, todo, volume_dir, choice, new_name, port_choice, volume_map>>
    /\ UNCHANGED procs

\* 404-440: the rest of the arguments, then docker run -d --name
\* <container_name> ... <image>; the runtime refuses a name that is in use
\* and creates the named volumes it is given
Restore_run ==
    /\ pc = "r_run"
    /\ ~TailRaises(container_info)
    /\ run_cmd' = run_cmd \o TailArgs(container_info, image)
    /\ \E ok \in BOOLEAN :
         /\ ok => cstate[container_name] = "absent"
         /\ log' = Logged("run", container_name, ok)
         /\ console' = console \cup Says("run", container_name, ok)
         /\ pc' = "r_cleanup"
         /\ IF ok
            THEN /\ cstate' = [cstate EXCEPT ![container_name] = "running"]
                 /\ cmounts' = [cmounts EXCEPT ![container_name] = container_info.Mounts]
                 /\ cenv' = [cenv EXCEPT ![container_name] = container_info.Env]
                 /\ cports' = [cports EXCEPT ![container_name] = Published(run_cmd')]
                 /\ volumes' = volumes \cup MountVolumes(container_info.Mounts)
                 /\ runs' = Append(runs, [inputs |-> RunInputs, args |-> run_cmd'])
                 /\ result' = "True"
                 /\ UNCHANGED exc
            ELSE /\ exc' = TRUE
                 /\ UNCHANGED <<cstate, cmounts, cenv, cports, volumes, result, runs>>
    /\ UNCHANGED <<vdata, images, archives, clock, btemp, rtemp>>
    /\ UNCHANGED <<call, container_name, backup_path, created, ncalls, blocal>>
    /\ UNCHANGED <<container_info, image, todo, volume_dir, choice, new_name, port_choice, bidx, new_ports, volume_map>>
    /\ UNCHANGED procs

\* 404-437: the rest of the arguments cannot be built, or cannot be handed to
\* the runtime: the exception leaves the `with` block, `run` is not started
Restore_run_raises ==
    /\ pc = "r_run"
    /\ TailRaises(container_info)
    /\ pc' = RestoreHandler("run")
    /\ exc' = TRUE
    /\ UNCHANGED <<world, call, container_name, backup_path, result, created, log, ncalls, console, blocal, rlocal>>
    /\ UNCHANGED procs

\* 288, 442-444: leaving the `with` block, by a return or by an exception,
\* removes the scratch directory (TemporaryDirectory.cleanup, which raises
\* if the tree cannot be removed); an exception then reaches the `except` of
\* the call
Restore_cleanup ==
    /\ pc = "r_cleanup"
    /\ \E ok \in BOOLEAN :
         /\ log' = Logged("cleanup", "", ok)
         /\ rtemp' = IF ok THEN NoTree ELSE rtemp
         /\ exc' = (exc \/ ~ok)
         /\ result' = RestoreResult(exc', result)
         /\ console' = console \cup (IF exc' THEN Excepted("restore") ELSE {})
    /\ pc' = "done"
    /\ UNCHANGED <<cstate, cmounts, cenv, cports, volumes, vdata, images, archives, clock, btemp>>
    /\ UNCHANGED <<call, container_name, backup_path, created, ncalls, blocal, rlocal>>
    /\ UNCHANGED <<runs, procs>>

\* ---------------------------------------------------------- backup_menu
\* menu_handlers.py 275-291, 'Delete backup': one of the *.tar files of the
\* backup directory is selected; it is unlinked if the user confirms, and the
\* deletion is reported. An unlink that raises goes to the `except` of the
\* menu (293-295).
Menu_delete(p) ==
    /\ pc = "idle"
    /\ ncalls < MaxCalls
    /\ p \in DOMAIN archives
    /\ \E confirmed \in BOOLEAN, ok \in BOOLEAN :
         /\ ~confirmed => ok
         /\ archives' = IF confirmed /\ ok
                        THEN [q \in DOMAIN archives \ {p} |-> archives[q]]
                        ELSE archives
         /\ result' = IF confirmed /\ ok THEN "True" ELSE "False"
         /\ exc' = ~ok
         /\ console' = IF confirmed /\ ok THEN { Line("Backup deleted", "") }
                       ELSE IF ~ok THEN { Line("Operation failed", "") }
                       ELSE {}
    /\ call' = "delete"
    /\ pc' = "done"
    /\ backup_path' = p
    /\ log' = <<>>
    /\ UNCHANGED <<cstate, cmounts, cenv, cports, volumes, vdata, images, clock, btemp, rtemp, runs>>
    /\ ncalls' = ncalls + 1
    /\ UNCHANGED <<container_name, created, blocal, rlocal, procs>>

\* The call has returned; the caller (backup_menu) goes back to its menu.
\* A TemporaryDirectory that restore could not remove keeps a name that no
\* later call uses: it is out of the picture from here on.
Return ==
    /\ pc = "done"
    /\ pc' = "idle"
    /\ call' = "none"
    /\ container_name' = ""
    /\ output' = NoOutput
    /\ backup_path' = <<"", 0>>
    /\ idx' = 0
    /\ exc' = FALSE
    /\ result' = "none"
    /\ created' = FALSE
    /\ log' = <<>>
    /\ console' = {}
    /\ container_info' = NoOutput
    /\ image' = ""
    /\ todo' = {}
    /\ volume_dir' = ""
    /\ choice' = "-"
    /\ new_name' = ""
    /\ run_cmd' = <<>>
    /\ port_choice' = "-"
    /\ bidx' = 0
    /\ new_ports' = <<>>
    /\ volume_map' = {}
    /\ rtemp' = NoTree
    /\ UNCHANGED <<cstate, cmounts, cenv, cports, volumes, vdata, images, archives, clock, btemp, runs>>
    /\ UNCHANGED <<ncalls, procs>>

\* Time passes between two calls (datetime.now() at 210 has one-second steps).
\* A new second matters only if the current one already names an archive.
Tick ==
    /\ pc = "idle"
    /\ \E p \in DOMAIN archives : p[1] \in CNames /\ p[2] = clock
    /\ clock' = clock + 1
    /\ UNCHANGED <<cstate, cmounts, cenv, cports, volumes, vdata, images, archives, btemp, rtemp, local>>
    /\ UNCHANGED <<runs, procs>>

\* ------------------------------------------------------------------ Init
NoArchives == [p \in {} |-> Archive(FALSE, NoTree)]

\* A *.tar file that was put into the backup directory, not written by a backup
\* of this run: a copy of an earlier backup of `web` ("ok"), the same without
\* its volumes directory and with a published port ("nosnap"), or a file
\* restore rejects.
ForeignPath == <<"foreign", 0>>
ForeignDoc(kind) ==
    [kind |-> IF kind = "nosnap" THEN "ok" ELSE kind,
     Name |-> IF kind \in {"ok", "nosnap"} THEN InspectName("web") ELSE NoName,
     Image |-> IF kind \in {"ok", "nosnap"} THEN ImageName ELSE "",
     Mounts |-> << VolumeMount("v1", "/d1") >>,
     Env |-> << "X=1" >>,
     RestartPolicy |-> Some(<< "no" >>),
     PortBindings |-> IF kind = "nosnap" THEN Some(<< Binding("8080/tcp", << P8080 >>) >>)
                      ELSE Some(<<>>),
     NetworkMode |-> Some(<< "default" >>),
     Labels |-> Some(<<>>),
     Cmd |-> Some(<< "serve" >>),
     Entrypoint |-> Null]
ForeignTree(kind) ==
    [exists |-> TRUE,
     config |-> IF kind \in {"missing", "corrupt"} THEN NoConfig ELSE ForeignDoc(kind),
     volumes |-> kind # "nosnap",
     dirs |-> IF kind = "nosnap" THEN {} ELSE {"v1"},
     data |-> IF kind = "nosnap" THEN EmptyData ELSE [EmptyData EXCEPT !["v1"] = {"f2"}]]
ForeignKinds == {"none", "corrupt", "missing", "badjson", "noname", "noimage", "ok", "nosnap"}
ForeignArchives(kind) ==
    IF kind = "none" THEN NoArchives
    ELSE ForeignPath :> Archive(kind # "corrupt", ForeignTree(kind))

\* No call is under way, the clock is at its start, no scratch directory exists.
LocalIdle ==
    /\ clock = 0
    /\ runs = <<>>
    /\ btemp = NoTree
    /\ rtemp = NoTree
    /\ pc = "idle"
    /\ call = "none"
    /\ container_name = ""
    /\ output = NoOutput
    /\ backup_path = <<"", 0>>
    /\ idx = 0
    /\ exc = FALSE
    /\ result = "none"
    /\ created = FALSE
    /\ log = <<>>
    /\ console = {}
    /\ ncalls = 0
    /\ container_info = NoOutput
    /\ image = ""
    /\ todo = {}
    /\ volume_dir = ""
    /\ choice = "-"
    /\ new_name = ""
    /\ run_cmd = <<>>
    /\ port_choice = "-"
    /\ bidx = 0
    /\ new_ports = <<>>
    /\ volume_map = {}

\* No call is being made, by one instance or by two.
Idle ==
    /\ procs = [p \in Procs |-> NoCall]
    /\ LocalIdle

Init ==
    /\ \E sw \in States, sa \in {"absent", "running"}, m \in MountChoices, e \in EnvChoices :
         /\ (sw = "absent") => (m = <<>> /\ e = << "X=1" >>)
         /\ (e # << "X=1" >>) => (m = << VolumeMount("v1", "/d1") >>)
         /\ cstate = [n \in CNames |-> IF n = "web" THEN sw ELSE sa]
         /\ cmounts = [n \in CNames |-> IF n = "web" THEN m ELSE <<>>]
         /\ cenv = [n \in CNames |-> IF n = "web" /\ sw # "absent" THEN e ELSE <<>>]
         /\ cports = [n \in CNames |-> <<>>]
         /\ volumes = MountVolumes(m)
         /\ vdata = [v \in VNames |->
                       IF v \notin MountVolumes(m) THEN {}
                       ELSE IF v = "v2" THEN {"f2"} ELSE {"f1"}]
    /\ images = {}
    /\ \E kind \in ForeignKinds : archives = ForeignArchives(kind)
    /\ Idle

Next ==
    \/ \E n \in CNames : BackupCall(n)
    \/ Backup_inspect
    \/ Backup_rm_temp
    \/ Backup_mkdir_temp
    \/ Backup_write_config
    \/ Backup_mkdir_volumes
    \/ Backup_stop
    \/ Backup_loop
    \/ Backup_mkdir_volume
    \/ Backup_export
    \/ Backup_start
    \/ Backup_tar
    \/ Backup_chown
    \/ Backup_cleanup
    \/ \E p \in DOMAIN archives \cup {MissingPath} : RestoreCall(p)
    \/ Restore_exists
    \/ Restore_mktemp
    \/ Restore_extract
    \/ Restore_config
    \/ Restore_ps
    \/ Restore_conflict
    \/ Restore_rename
    \/ Restore_rm
    \/ Restore_volume_create
    \/ Restore_import
    \/ Restore_pull
    \/ Restore_port_choice
    \/ Restore_new_port
    \/ Restore_run
    \/ Restore_cleanup
    \/ \E p \in DOMAIN archives : Menu_delete(p)
    \/ Return
    \/ Tick

Spec == Init /\ [][Next]_vars

\* ------------------------------------------------- restores of archives
\* The restore of archives of containers of every shape the arguments of
\* `run` depend on: the archive is what backup_container writes for a
\* container `web` with the given inspect document.

\* The port bindings of the archived documents.
PortChoicesOfDocs ==
    { Absent,
      Some(<<>>),
      Null,
      Some(<< Binding("8080/tcp", << P8080 >>) >>),
      Some(<< Binding("8080/tcp", << P8080, P9090 >>), Binding("53/udp", << <<>> >>) >>) }

\* The rest of the archived documents: mounts, environment, restart policy,
\* network mode, labels, command.
ShapeChoices ==
    { [Mounts |-> << BindMount("/data", "/app/data") >>, Env |-> << "X=1" >>,
       RestartPolicy |-> Absent, NetworkMode |-> Absent, Labels |-> Absent, Cmd |-> Absent,
       Entrypoint |-> Absent],
      [Mounts |-> << VolumeMount("v1", "/d1"), VolumeMount("v2", "/d2") >>,
       Env |-> << "X=1", "Y=2" >>,
       RestartPolicy |-> Some(<< "always" >>), NetworkMode |-> Some(<< "bridge" >>),
       Labels |-> Some(<< Label("a", "1"), Label("b", "2") >>),
       Cmd |-> Some(<< "serve", "-v" >>),
       Entrypoint |-> Some(<< "/entry", "--quiet" >>)],
      [Mounts |-> << BindMount("/data", "/app/data"), VolumeMount("v1", "/d1") >>,
       Env |-> <<>>,
       RestartPolicy |-> Some(<< "no" >>), NetworkMode |-> Some(<< "default" >>),
       Labels |-> Some(<<>>), Cmd |-> Some(<<>>), Entrypoint |-> Some(<<>>)],
      [Mounts |-> <<>>, Env |-> << "X=1" >>,
       RestartPolicy |-> Some(<< "" >>), NetworkMode |-> Some(<< "host" >>),
       Labels |-> Some(<< Label("a", "1") >>), Cmd |-> Absent,
       Entrypoint |-> Some(<< "/entry" >>)],
      [Mounts |-> <<>>, Env |-> <<>>,
       RestartPolicy |-> Null, NetworkMode |-> Some(<< "default" >>),
       Labels |-> Some(<<>>), Cmd |-> Null, Entrypoint |-> Null],
      [Mounts |-> << VolumeMount("v1", "/d1") >>, Env |-> << "X=1" >>,
       RestartPolicy |-> Some(<< "always" >>), NetworkMode |-> Some(<< "bridge" >>),
       Labels |-> Null, Cmd |-> Null, Entrypoint |-> Null],
      [Mounts |-> <<>>, Env |-> << "X=1" >>,
       RestartPolicy |-> Absent, NetworkMode |-> Null,
       Labels |-> Absent, Cmd |-> Null, Entrypoint |-> Null] }

RestoreDoc(shape, ports) ==
    [kind |-> "ok", Name |-> InspectName("web"), Image |-> ImageName,
     Mounts |-> shape.Mounts, Env |-> shape.Env,
     RestartPolicy |-> shape.RestartPolicy, PortBindings |-> ports,
     NetworkMode |-> shape.NetworkMode, Labels |-> shape.Labels, Cmd |-> shape.Cmd,
     Entrypoint |-> shape.Entrypoint]

\* 219-252: the tree backup_container archives for a container with this
\* document: config.json, the volumes directory when the mount list is not
\* empty, one snapshot per volume mount
BackupTree(doc) ==
    [exists |-> TRUE,
     config |-> doc,
     volumes |-> doc.Mounts # <<>>,
     dirs |-> MountVolumes(doc.Mounts),
     data |-> [v \in VNames |-> IF v \in MountVolumes(doc.Mounts) THEN {"f1"} ELSE {}]]

InitRestore ==
    /\ \E sw \in {"absent", "running"}, shape \in ShapeChoices, ports \in PortChoicesOfDocs :
         /\ cstate = [n \in CNames |-> IF n = "web" THEN sw ELSE "absent"]
         /\ archives = ForeignPath :> Archive(TRUE, BackupTree(RestoreDoc(shape, ports)))
    /\ cmounts = [n \in CNames |-> <<>>]
    /\ cenv = [n \in CNames |-> <<>>]
    /\ cports = [n \in CNames |-> <<>>]
    /\ volumes = {}
    /\ vdata = EmptyData
    /\ images = {}
    /\ Idle

NextRestore ==
    \/ \E p \in DOMAIN archives \cup {MissingPath} : RestoreCall(p)
    \/ Restore_exists
    \/ Restore_mktemp
    \/ Restore_extract
    \/ Restore_config
    \/ Restore_ps
    \/ Restore_conflict
    \/ Restore_rename
    \/ Restore_rm
    \/ Restore_volume_create
    \/ Restore_import
    \/ Restore_pull
    \/ Restore_port_choice
    \/ Restore_new_port
    \/ Restore_run
    \/ Restore_run_raises
    \/ Restore_cleanup
    \/ Return

SpecRestore == InitRestore /\ [][NextRestore]_vars

\* ------------------------------------------- two backups at the same time
\* backup_container takes no lock and keeps no state between calls: two
\* instances of the program that back up the same container run the
\* statements of 204-277 each at its own pace, on the one runtime, the one
\* scratch directory /tmp/docker_backup_temp and the one backup directory.
RaceName == "web"

\* What the other world variables and the call of the sequential
\* specifications do meanwhile: nothing.
RaceFrame == UNCHANGED <<cmounts, cenv, cports, volumes, vdata, images, clock, rtemp, runs, local>>

\* The locals of instance p after a step.
Moved(p, rec) == procs' = [procs EXCEPT ![p] = rec]

\* `mkdir -p` of a snapshot directory, and the bind mount of the export helper
\* (249), create the directories above it that are missing.
MkdirP(tree, v) == [tree EXCEPT !.exists = TRUE, !.volumes = TRUE, !.dirs = @ \cup {v}]

\* 204-211
Race_inspect(p) ==
    /\ procs[p].pc = "b_inspect"
    /\ \E ok \in BOOLEAN, out \in InspectResults(RaceName) :
         Moved(p, IF ~ok
                  THEN [procs[p] EXCEPT !.pc = BackupHandler("inspect"), !.result = Failed("inspect")]
                  ELSE IF IsEmptyOutput(out)
                  THEN [procs[p] EXCEPT !.pc = "done", !.result = "False", !.output = out]
                  ELSE [procs[p] EXCEPT !.pc = BackupNext("inspect"), !.output = out,
                                        !.backup_path = <<RaceName, clock>>])
    /\ UNCHANGED <<cstate, btemp, archives>>
    /\ RaceFrame

\* 215
Race_rm_temp(p) ==
    /\ procs[p].pc = "b_rm_temp"
    /\ \E ok \in BOOLEAN :
         /\ btemp' = IF ok THEN NoTree ELSE btemp
         /\ Moved(p, IF ok THEN [procs[p] EXCEPT !.pc = BackupNext("rm_temp")]
                     ELSE [procs[p] EXCEPT !.pc = BackupHandler("rm_temp"), !.result = Failed("rm_temp")])
    /\ UNCHANGED <<cstate, archives>>
    /\ RaceFrame

\* 216-217: mkdir -p keeps a directory that is there
Race_mkdir_temp(p) ==
    /\ procs[p].pc = "b_mkdir_temp"
    /\ \E ok \in BOOLEAN :
         /\ btemp' = IF ok THEN [btemp EXCEPT !.exists = TRUE] ELSE btemp
         /\ Moved(p, IF ok THEN [procs[p] EXCEPT !.pc = BackupNext("mkdir_temp")]
                     ELSE [procs[p] EXCEPT !.pc = BackupHandler("mkdir_temp"), !.result = Failed("mkdir_temp")])
    /\ UNCHANGED <<cstate, archives>>
    /\ RaceFrame

\* 219-228: the redirection fails when the scratch directory is not there
Race_write_config(p) ==
    /\ procs[p].pc = "b_write_config"
    /\ \E ok \in BOOLEAN :
         /\ ok => (ShellParses(procs[p].output) /\ btemp.exists)
         /\ btemp' = IF ok THEN [btemp EXCEPT !.config = WrittenConfig(procs[p].output)] ELSE btemp
         /\ Moved(p, IF ok
                     THEN [procs[p] EXCEPT !.idx = 1,
                              !.pc = IF VolumesTruthy(procs[p].output.Mounts) THEN "b_mkdir_volumes" ELSE "b_tar"]
                     ELSE [procs[p] EXCEPT !.pc = BackupHandler("write_config"), !.exc = TRUE])
    /\ UNCHANGED <<cstate, archives>>
    /\ RaceFrame

\* 229-230
Race_mkdir_volumes(p) ==
    /\ procs[p].pc = "b_mkdir_volumes"
    /\ \E ok \in BOOLEAN :
         /\ btemp' = IF ok THEN [btemp EXCEPT !.exists = TRUE, !.volumes = TRUE] ELSE btemp
         /\ Moved(p, IF ok THEN [procs[p] EXCEPT !.pc = BackupNext("mkdir_volumes")]
                     ELSE [procs[p] EXCEPT !.pc = BackupHandler("mkdir_volumes"), !.exc = TRUE])
    /\ UNCHANGED <<cstate, archives>>
    /\ RaceFrame

\* 232-234
Race_stop(p) ==
    /\ procs[p].pc = "b_stop"
    /\ \E ok \in BOOLEAN :
         /\ cstate' = IF ok THEN [cstate EXCEPT ![RaceName] = "stopped"] ELSE cstate
         /\ Moved(p, IF ok THEN [procs[p] EXCEPT !.pc = BackupNext("stop")]
                     ELSE [procs[p] EXCEPT !.pc = BackupHandler("stop"), !.exc = TRUE])
    /\ UNCHANGED <<btemp, archives>>
    /\ RaceFrame

\* 236-240
Race_loop(p) ==
    /\ procs[p].pc = "b_loop"
    /\ LET i == NextVolume(procs[p].output.Mounts, procs[p].idx)
       IN  Moved(p, [procs[p] EXCEPT !.idx = i,
                        !.pc = IF i > Len(procs[p].output.Mounts) THEN "b_start" ELSE "b_mkdir_volume"])
    /\ UNCHANGED <<cstate, btemp, archives>>
    /\ RaceFrame

\* 241-242
Race_mkdir_volume(p) ==
    /\ procs[p].pc = "b_mkdir_volume"
    /\ \E ok \in BOOLEAN :
         /\ btemp' = IF ok THEN MkdirP(btemp, procs[p].output.Mounts[procs[p].idx].Name) ELSE btemp
         /\ Moved(p, IF ok THEN [procs[p] EXCEPT !.pc = BackupNext("mkdir_volume")]
                     ELSE [procs[p] EXCEPT !.pc = BackupHandler("mkdir_volume"), !.exc = TRUE])
    /\ UNCHANGED <<cstate, archives>>
    /\ RaceFrame

\* 244-252
Race_export(p) ==
    /\ procs[p].pc = "b_export"
    /\ LET v == procs[p].output.Mounts[procs[p].idx].Name IN
       \E ok \in BOOLEAN, part \in SUBSET vdata[v] :
         /\ ok => part = {}
         /\ btemp' = IF ok THEN ExportCopy(MkdirP(btemp, v), v) ELSE PartialCopy(MkdirP(btemp, v), v, part)
         /\ Moved(p, IF ok THEN [procs[p] EXCEPT !.pc = BackupNext("export"), !.idx = @ + 1]
                     ELSE [procs[p] EXCEPT !.pc = BackupHandler("export"), !.exc = TRUE])
    /\ UNCHANGED <<cstate, archives>>
    /\ RaceFrame

\* 253-256
Race_start(p) ==
    /\ procs[p].pc = "b_start"
    /\ \E ok \in BOOLEAN :
         /\ cstate' = IF ok THEN [cstate EXCEPT ![RaceName] = "running"] ELSE cstate
         /\ Moved(p, IF ok THEN [procs[p] EXCEPT !.pc = AfterStart(procs[p].exc)]
                     ELSE [procs[p] EXCEPT !.pc = BackupHandler("start"), !.exc = TRUE])
    /\ UNCHANGED <<btemp, archives>>
    /\ RaceFrame

\* 258-263: tar -C fails when the scratch directory is not there
Race_tar(p) ==
    /\ procs[p].pc = "b_tar"
    /\ \E ok \in BOOLEAN, partial \in BOOLEAN :
         /\ ok => (~partial /\ btemp.exists)
         /\ archives' = IF ok \/ partial
                        THEN (procs[p].backup_path :> Archive(ok, btemp)) @@ archives
                        ELSE archives
         /\ Moved(p, IF ok THEN [procs[p] EXCEPT !.pc = BackupNext("tar")]
                     ELSE [procs[p] EXCEPT !.pc = BackupHandler("tar"), !.exc = TRUE])
    /\ UNCHANGED <<cstate, btemp>>
    /\ RaceFrame

\* 265-266
Race_chown(p) ==
    /\ procs[p].pc = "b_chown"
    /\ \E ok \in BOOLEAN :
         Moved(p, [procs[p] EXCEPT !.pc = IF ok THEN BackupNext("chown") ELSE BackupHandler("chown"),
                                   !.exc = ~ok])
    /\ UNCHANGED <<cstate, btemp, archives>>
    /\ RaceFrame

\* 268-277
Race_cleanup(p) ==
    /\ procs[p].pc = "b_cleanup"
    /\ \E ok \in BOOLEAN :
         /\ btemp' = IF ok THEN NoTree ELSE btemp
         /\ Moved(p, [procs[p] EXCEPT !.pc = "done",
                         !.result = IF ok /\ ~procs[p].exc THEN "True" ELSE "False"])
    /\ UNCHANGED <<cstate, archives>>
    /\ RaceFrame

\* Both instances have just been asked to back up RaceName, a container with
\* one or two named volumes, in the same second.
InitRace ==
    /\ \E sw \in {"running", "stopped"},
          m \in { << VolumeMount("v1", "/d1") >>, << VolumeMount("v1", "/d1"), VolumeMount("v2", "/d2") >> } :
         /\ cstate = [n \in CNames |-> IF n = RaceName THEN sw ELSE "absent"]
         /\ cmounts = [n \in CNames |-> IF n = RaceName THEN m ELSE <<>>]
         /\ volumes = MountVolumes(m)
         /\ vdata = [v \in VNames |->
                       IF v \notin MountVolumes(m) THEN {}
                       ELSE IF v = "v2" THEN {"f2"} ELSE {"f1"}]
    /\ cenv = [n \in CNames |-> IF n = RaceName THEN << "X=1" >> ELSE <<>>]
    /\ cports = [n \in CNames |-> <<>>]
    /\ images = {}
    /\ archives = NoArchives
    /\ LocalIdle
    /\ procs = [p \in Procs |-> [NoCall EXCEPT !.pc = "b_inspect"]]

NextRace ==
    \E p \in Procs :
        \/ Race_inspect(p)
        \/ Race_rm_temp(p)
        \/ Race_mkdir_temp(p)
        \/ Race_write_config(p)
        \/ Race_mkdir_volumes(p)
        \/ Race_stop(p)
        \/ Race_loop(p)
        \/ Race_mkdir_volume(p)
        \/ Race_export(p)
        \/ Race_start(p)
        \/ Race_tar(p)
        \/ Race_chown(p)
        \/ Race_cleanup(p)

SpecRace == InitRace /\ [][NextRace]_vars

\* ------------------------------------------------------ installation_menu
\* What the menus leave alone: images, archives, scratch directories, the
\* locals of backup and restore, the concurrent instances.
AdminFrame ==
    UNCHANGED <<images, archives, clock, btemp, rtemp, runs, procs, backup_path, created, rlocal>>

\* What a call of run_docker_command for a version can do (docker_utils.py
\* 7-27): return the text the command printed, return an empty text, or
\* raise because the command could not be run or exited with an error.
VersionResults == {"text", "empty", "raise"}

\* menu_handlers.py 318-332, 423-425: the statement after a version check:
\* an exception leaves the option and goes to the `except` of the menu
CheckNext(step, out) ==
    IF out = "raise" THEN "done"
    ELSE IF step = "docker" THEN "i_compose" ELSE "done"

\* menu_handlers.py 320-332, 424: the line printed after a version check
CheckLine(product, out) ==
    IF out = "raise" THEN { Line("Operation failed", "") }
    ELSE IF out = "text" THEN { Line("is installed", product) }
    ELSE { Line("is not installed", product) }

\* menu_handlers.py 311-317: 'Check Docker installation' is selected
CheckCall ==
    /\ pc = "idle"
    /\ ncalls < MaxCalls
    /\ call' = "check"
    /\ pc' = "i_docker"
    /\ ncalls' = ncalls + 1
    /\ log' = <<>>
    /\ console' = {}
    /\ UNCHANGED <<cstate, cmounts, cenv, cports, volumes, vdata, container_name, output, idx, exc, result>>
    /\ AdminFrame

\* menu_handlers.py 319-323: docker --version and its report
Check_docker ==
    /\ pc = "i_docker"
    /\ \E out \in VersionResults :
         /\ log' = Logged("docker_version", out, out # "raise")
         /\ console' = console \cup CheckLine("Docker", out)
         /\ exc' = (out = "raise")
         /\ pc' = CheckNext("docker", out)
    /\ UNCHANGED <<cstate, cmounts, cenv, cports, volumes, vdata, call, container_name, output, idx, result, ncalls>>
    /\ AdminFrame

\* menu_handlers.py 325-332: docker compose version and its report
Check_compose ==
    /\ pc = "i_compose"
    /\ \E out \in VersionResults :
         /\ log' = Logged("compose_version", out, out # "raise")
         /\ console' = console \cup CheckLine("Docker Compose", out)
         /\ exc' = (out = "raise")
         /\ pc' = CheckNext("compose", out)
    /\ UNCHANGED <<cstate, cmounts, cenv, cports, volumes, vdata, call, container_name, output, idx, result, ncalls>>
    /\ AdminFrame

\* ------------------------------------------------------- delete_container
\* Mutant: the container is removed whatever the answer to the first prompt.
AfterConfirm_Always(yes) == "d_rm"

\* 73-77: a declined confirmation returns, a given one goes on to `rm -f`
AfterConfirm(yes) == IF yes THEN "d_rm" ELSE "done"

\* 81: volume_names, the names of the mounts of type 'volume'
VolumeNames(mounts) == { mounts[i].Name : i \in { j \in DOMAIN mounts : mounts[j].Type = "volume" } }

\* The existing containers that mount volume v: the runtime refuses to
\* remove a volume that is in use.
UsedBy(v) == { n \in CNames : cstate[n] # "absent" /\ v \in MountVolumes(cmounts[n]) }

\* The container menu calls delete_container(container_name)
\* (menu_handlers.py 60).
DeleteCall(n) ==
    /\ pc = "idle"
    /\ ncalls < MaxCalls
    /\ call' = "delete_container"
    /\ container_name' = n
    /\ pc' = "d_inspect"
    /\ ncalls' = ncalls + 1
    /\ log' = <<>>
    /\ console' = {}
    /\ UNCHANGED <<cstate, cmounts, cenv, cports, volumes, vdata, output, idx, exc, result>>
    /\ AdminFrame

\* 64-71: inspect, the not-found return, the mount list
Delete_inspect ==
    /\ pc = "d_inspect"
    /\ \E ok \in BOOLEAN, out \in InspectResults(container_name) :
         /\ log' = Logged("inspect", container_name, ok)
         /\ IF ~ok
            THEN /\ exc' = TRUE
                 /\ result' = "False"
                 /\ pc' = "done"
                 /\ console' = console \cup { Line("Failed to delete container", "") }
                 /\ UNCHANGED output
            ELSE IF IsEmptyOutput(out)
            THEN /\ result' = "False"
                 /\ pc' = "done"
                 /\ console' = console \cup { Line("not found", container_name) }
                 /\ output' = out
                 /\ UNCHANGED exc
            ELSE /\ output' = out
                 /\ pc' = "d_confirm"
                 /\ UNCHANGED <<exc, result, console>>
    /\ UNCHANGED <<cstate, cmounts, cenv, cports, volumes, vdata, call, container_name, idx, ncalls>>
    /\ AdminFrame

\* 73-74: "Are you sure you want to delete container ...?"
Delete_confirm ==
    /\ pc = "d_confirm"
    /\ \E yes \in BOOLEAN :
         /\ log' = Logged("ask_delete", container_name, yes)
         /\ pc' = AfterConfirm(yes)
         /\ result' = IF AfterConfirm(yes) = "done" THEN "False" ELSE result
    /\ UNCHANGED <<cstate, cmounts, cenv, cports, volumes, vdata, call, container_name, output, idx, exc, ncalls, console>>
    /\ AdminFrame

\* 76-88, 101-104: docker rm -f <container>, then the volumes it had
Delete_rm ==
    /\ pc = "d_rm"
    /\ \E ok \in BOOLEAN :
         /\ log' = Logged("rm", container_name, ok)
         /\ IF ok
            THEN /\ cstate' = [cstate EXCEPT ![container_name] = "absent"]
                 /\ cmounts' = [cmounts EXCEPT ![container_name] = <<>>]
                 /\ cenv' = [cenv EXCEPT ![container_name] = <<>>]
                 /\ cports' = [cports EXCEPT ![container_name] = <<>>]
                 /\ console' = console \cup { Line("deleted", container_name) }
                 /\ pc' = IF VolumeNames(output.Mounts) # {} THEN "d_confirm_volumes" ELSE "done"
                 /\ result' = IF VolumeNames(output.Mounts) # {} THEN result ELSE "True"
                 /\ UNCHANGED exc
            ELSE /\ exc' = TRUE
                 /\ result' = "False"
                 /\ pc' = "done"
                 /\ console' = console \cup { Line("Failed to delete container", "") }
                 /\ UNCHANGED <<cstate, cmounts, cenv, cports>>
    /\ UNCHANGED <<volumes, vdata, call, container_name, output, idx, ncalls>>
    /\ AdminFrame

\* 88-89, 97-100: "Would you like to clean up these volumes?"
Delete_confirm_volumes ==
    /\ pc = "d_confirm_volumes"
    /\ \E yes \in BOOLEAN :
         LET first == NextVolume(output.Mounts, 1) IN
         /\ log' = Logged("ask_volumes", "", yes)
         /\ idx' = IF yes THEN first ELSE idx
         /\ pc' = IF yes /\ first <= Len(output.Mounts) THEN "d_volume_rm" ELSE "done"
         /\ result' = IF yes /\ first <= Len(output.Mounts) THEN result ELSE "True"
         /\ console' = console \cup (IF yes THEN {} ELSE { Line("Volumes have been kept", "") })
    /\ UNCHANGED <<cstate, cmounts, cenv, cports, volumes, vdata, call, container_name, output, exc, ncalls>>
    /\ AdminFrame

\* 89-96, 101: docker volume rm <volume> for the next mount of type 'volume'
\* that has a name; a failure is reported and the loop goes on
Delete_volume_rm ==
    /\ pc = "d_volume_rm"
    /\ LET v == output.Mounts[idx].Name
           next == NextVolume(output.Mounts, idx + 1)
       IN  \E ok \in BOOLEAN :
             /\ ok => (v \in volumes /\ UsedBy(v) = {})
             /\ log' = Logged("volume_rm", v, ok)
             /\ volumes' = IF ok THEN volumes \ {v} ELSE volumes
             /\ vdata' = IF ok THEN [vdata EXCEPT ![v] = {}] ELSE vdata
             /\ console' = console \cup
                    { Line(IF ok THEN "Volume removed" ELSE "Failed to remove volume", v) }
             /\ idx' = next
             /\ pc' = IF next <= Len(output.Mounts) THEN "d_volume_rm" ELSE "done"
             /\ result' = IF next <= Len(output.Mounts) THEN result ELSE "True"
    /\ UNCHANGED <<cstate, cmounts, cenv, cports, call, container_name, output, exc, ncalls>>
    /\ AdminFrame

\* The containers `web` and `app` as the menus find them; `app` may share
\* the volume v1 with `web`. No archive has been written.
InitAdmin ==
    /\ \E sw \in States, sa \in {"absent", "running"}, m \in MountChoices,
          ma \in { <<>>, << VolumeMount("v1", "/d1") >> } :
         /\ (sw = "absent") => m = <<>>
         /\ (sa = "absent") => ma = <<>>
         /\ cstate = [n \in CNames |-> IF n = "web" THEN sw ELSE sa]
         /\ cmounts = [n \in CNames |-> IF n = "web" THEN m ELSE ma]
         /\ cenv = [n \in CNames |-> IF cstate[n] = "absent" THEN <<>> ELSE << "X=1" >>]
         /\ volumes = MountVolumes(m) \cup MountVolumes(ma)
         /\ vdata = [v \in VNames |->
                       IF v \notin MountVolumes(m) \cup MountVolumes(ma) THEN {}
                       ELSE IF v = "v2" THEN {"f2"} ELSE {"f1"}]
    /\ cports = [n \in CNames |-> <<>>]
    /\ images = {}
    /\ archives = NoArchives
    /\ Idle

NextAdmin ==
    \/ CheckCall
    \/ Check_docker
    \/ Check_compose
    \/ \E n \in CNames : DeleteCall(n)
    \/ Delete_inspect
    \/ Delete_confirm
    \/ Delete_rm
    \/ Delete_confirm_volumes
    \/ Delete_volume_rm
    \/ Return

SpecAdmin == InitAdmin /\ [][NextAdmin]_vars

\* ------------------------------------------ backups of a stopped container
\* backup_container called for a container that is not running when the
\* call is made: `web` exists, is stopped and has mounts.
InitStopped ==
    /\ \E m \in MountChoices \ { <<>> } :
         /\ cstate = [n \in CNames |-> IF n = "web" THEN "stopped" ELSE "absent"]
         /\ cmounts = [n \in CNames |-> IF n = "web" THEN m ELSE <<>>]
         /\ volumes = MountVolumes(m)
         /\ vdata = [v \in VNames |->
                       IF v \notin MountVolumes(m) THEN {}
                       ELSE IF v = "v2" THEN {"f2"} ELSE {"f1"}]
    /\ cenv = [n \in CNames |-> IF n = "web" THEN << "X=1" >> ELSE <<>>]
    /\ cports = [n \in CNames |-> <<>>]
    /\ images = {}
    /\ archives = NoArchives
    /\ Idle

NextStopped ==
    \/ \E n \in CNames : BackupCall(n)
    \/ Backup_inspect
    \/ Backup_rm_temp
    \/ Backup_mkdir_temp
    \/ Backup_write_config
    \/ Backup_mkdir_volumes
    \/ Backup_stop
    \/ Backup_loop
    \/ Backup_mkdir_volume
    \/ Backup_export
    \/ Backup_start
    \/ Backup_tar
    \/ Backup_chown
    \/ Backup_cleanup
    \/ Return
    \/ Tick

SpecStopped == InitStopped /\ [][NextStopped]_vars

\* ------------------------------------------------- reading the call's log
\* The commands that go through run_docker_command.
RuntimeCmds ==
    {"inspect", "stop", "start", "export", "ps", "rm", "volume_create", "import", "pull", "run"}

Ran(cmd) == \E i \in DOMAIN log : log[i].cmd = cmd
RanOk(cmd) == \E i \in DOMAIN log : log[i].cmd = cmd /\ log[i].ok
RanFailed(cmd) == \E i \in DOMAIN log : log[i].cmd = cmd /\ ~log[i].ok

\* The failures of the volume export phase of a backup (241-252).
ExportPhaseFailures ==
    { i \in DOMAIN log : log[i].cmd \in {"mkdir_volume", "export"} /\ ~log[i].ok }

\* ---------------------------------------------------------------- claims

\* C1: in backup_container, once `stop` has succeeded, every failure of the
\* volume export phase (creating a snapshot directory, running the export
\* helper) is followed by an attempted `start` of that container before the
\* failure leaves the volume block, i.e. before control is anywhere but at
\* the `start` itself.
C1_StartBeforePropagation ==
    (call = "backup" /\ pc # "b_start") =>
        \A i \in ExportPhaseFailures :
            /\ \E k \in 1..(i - 1) :
                  log[k].cmd = "stop" /\ log[k].ok /\ log[k].arg = container_name
            /\ \E j \in (i + 1)..Len(log) :
                  log[j].cmd = "start" /\ log[j].arg = container_name

C1_Witness ==
    /\ call = "backup"
    /\ pc = "done"
    /\ result = "False"
    /\ RanFailed("export")
    /\ Ran("start")

\* C2: every volume export of a backup runs while the owning container is
\* stopped: after a successful `stop` of that container by the same call and
\* before the call's `start`.
C2_ExportWhileStopped ==
    /\ \A i \in DOMAIN log :
          log[i].cmd = "export" =>
              /\ \E k \in 1..(i - 1) :
                    log[k].cmd = "stop" /\ log[k].ok /\ log[k].arg = container_name
              /\ \A k \in 1..(i - 1) : log[k].cmd # "start"
    /\ pc = "b_export" => cstate[container_name] = "stopped"

C2_Witness ==
    /\ call = "backup"
    /\ pc = "done"
    /\ RanOk("export")
    /\ RanOk("start")

\* C3 (as claimed): backup of a container without any mount of type 'volume'
\* (no mounts, or bind mounts only) never invokes `stop` or `start`.
C3_NoStopWithoutVolumes ==
    (call = "backup" /\ output.kind = "ok" /\ MountVolumes(output.Mounts) = {}) =>
        (~Ran("stop") /\ ~Ran("start"))

\* C4: a failed volume copy helper aborts the call: after a failed export,
\* backup never runs the archive step and returns False; after a failed
\* `volume create` or import, restore invokes neither `pull` nor `run` and
\* returns False.
C4_CopyFailureAborts ==
    /\ (call = "backup" /\ RanFailed("export")) =>
          (~Ran("tar") /\ result # "True" /\ (pc = "done" => result = "False"))
    /\ (call = "restore" /\ (RanFailed("volume_create") \/ RanFailed("import"))) =>
          (~Ran("pull") /\ ~Ran("run") /\ result # "True" /\ (pc = "done" => result = "False"))

C4_Witness ==
    /\ call = "backup"
    /\ pc = "done"
    /\ RanFailed("export")
    /\ RanOk("start")
    /\ result = "False"

C4_WitnessRestore ==
    /\ call = "restore"
    /\ pc = "done"
    /\ RanFailed("import")
    /\ result = "False"

\* C5: once a backup or restore call has created its scratch directory, the
\* directory is gone when the call returns, whichever step failed, unless
\* the removal command of the cleanup itself failed.
C5_ScratchRemoved ==
    (pc = "done" /\ created /\ ~RanFailed("cleanup")) =>
        /\ call = "backup" => (Ran("cleanup") /\ ~btemp.exists)
        /\ call = "restore" => ~rtemp.exists

C5_Witness ==
    /\ call = "backup"
    /\ pc = "done"
    /\ created
    /\ RanFailed("tar")
    /\ RanOk("cleanup")
    /\ ~btemp.exists

\* C6 (as claimed): when the tar step of a backup fails, no partial archive
\* is present at the final path of that backup.
C6_NoPartialArchive ==
    (call = "backup" /\ RanFailed("tar")) =>
        ~(backup_path \in DOMAIN archives /\ ~archives[backup_path].ok)

\* C7: backup_container on a container that does not exist (inspect fails or
\* returns nothing) returns False having run the inspect and nothing else:
\* no scratch directory, no stop/start, no helper, no archive step.
NotFound ==
    /\ call = "backup"
    /\ log # <<>>
    /\ log[1].cmd = "inspect"
    /\ (~log[1].ok \/ output.kind = "empty")

C7_NotFoundDoesNothing ==
    NotFound =>
        /\ pc = "done"
        /\ result = "False"
        /\ ~created
        /\ Len(log) = 1
        /\ \A c \in {"mkdir_temp", "stop", "start", "export", "tar"} : ~Ran(c)

C7_Witness ==
    /\ NotFound
    /\ cstate[container_name] = "absent"
    /\ log[1].ok
    /\ pc = "done"

\* C8: the archive of a backup that returned True holds, for every mount of
\* type 'volume' of its saved config document, the snapshot directory of
\* that volume with the files of the volume; no other snapshot directory
\* exists and the export helper ran for the volume mounts only.
C8_SnapshotPerVolume ==
    (call = "backup" /\ pc = "done" /\ result = "True") =>
        /\ backup_path \in DOMAIN archives
        /\ LET a == archives[backup_path]
               vs == MountVolumes(a.tree.config.Mounts)
           IN  /\ a.ok
               /\ a.tree.config.Mounts = output.Mounts
               /\ a.tree.dirs = vs
               /\ \A v \in vs : a.tree.data[v] = vdata[v]
               /\ \A i \in DOMAIN log :
                     log[i].cmd \in {"mkdir_volume", "export"} => log[i].arg \in vs
               /\ \A v \in vs : \E i \in DOMAIN log :
                     log[i].cmd = "export" /\ log[i].arg = v /\ log[i].ok

C8_Witness ==
    /\ call = "backup"
    /\ pc = "done"
    /\ result = "True"
    /\ Len(output.Mounts) = 2
    /\ output.Mounts[1].Type = "bind"
    /\ archives[backup_path].tree.dirs = {"v1"}
    /\ archives[backup_path].tree.data["v1"] = {"f1"}

\* C9: restore of an archive that extracts but holds no config.json returns
\* False and invokes no runtime command.
ExtractedWithoutConfig ==
    /\ call = "restore"
    /\ RanOk("extract")
    /\ archives[backup_path].tree.config.kind = "missing"

C9_MissingConfigNoCommand ==
    ExtractedWithoutConfig =>
        /\ \A i \in DOMAIN log : log[i].cmd \notin RuntimeCmds
        /\ pc \in {"r_config", "r_cleanup", "done"}
        /\ result # "True"
        /\ pc = "done" => result = "False"

C9_Witness ==
    /\ ExtractedWithoutConfig
    /\ pc = "done"
    /\ result = "False"

\* C10: a restore whose step 1 or 2 fails (backup file missing, extraction
\* fails, config.json does not parse or lacks the name or the image) returns
\* False, has invoked no runtime command, and no step of it has changed a
\* container, a volume or an image.
Step12Failed ==
    /\ call = "restore"
    /\ \/ pc # "r_exists" /\ backup_path \notin DOMAIN archives
       \/ RanFailed("extract")
       \/ /\ RanOk("extract")
          /\ archives[backup_path].tree.config.kind \in {"badjson", "noname", "noimage"}

runtime == <<cstate, cmounts, cenv, cports, volumes, vdata, images>>

C10_EarlyFailureNoSideEffect ==
    /\ [](Step12Failed =>
            /\ \A i \in DOMAIN log : log[i].cmd \notin RuntimeCmds
            /\ result # "True"
            /\ pc = "done" => result = "False")
    /\ [][(call = "restore" /\ (Step12Failed' \/ pc \in {"r_exists", "r_mktemp", "r_extract", "r_config"}))
             => UNCHANGED runtime]_vars

C10_Witness ==
    /\ Step12Failed
    /\ RanOk("extract")
    /\ archives[backup_path].tree.config.kind = "noimage"
    /\ pc = "done"
    /\ result = "False"

\* The user answered the conflict prompt (316) with something that is neither
\* "remove the existing container" nor "rename".
AbortChosen == call = "restore" /\ choice \notin {"-", "1", "2"}

\* The commands restore_container issues after the conflict prompt.
AfterConflictCmds == {"rm", "volume_create", "import", "pull", "run"}

\* C11: when restore_container finds the target name in use and the user
\* chooses to abort, the existing container is left as it is (no `rm`), no
\* volume is created or written, neither `pull` nor `run` is issued, no step
\* of the call changes the runtime, and the call returns False.
C11_AbortTouchesNothing ==
    /\ [](AbortChosen =>
            /\ \A i \in DOMAIN log : log[i].cmd \notin AfterConflictCmds
            /\ cstate[container_name] # "absent"
            /\ pc \in {"r_cleanup", "done"}
            /\ result = "False")
    /\ [][AbortChosen' => UNCHANGED runtime]_vars

C11_Witness ==
    /\ AbortChosen
    /\ pc = "done"
    /\ RanOk("ps")
    /\ result = "False"

\* The name the backed-up container had (305).
OriginalName == Lstrip(container_info.Name)

\* C12: a name conflict in restore_container has exactly three outcomes:
\* (1) after the answer "1" the existing container is removed with `rm -f`
\* and the restore goes on under the original name; (2) after "2" and a
\* non-empty new name the restore goes on under that name and the existing
\* container is not removed; (3) after every other input, an empty new name
\* included, the call aborts: it issues no further command and returns
\* False.  `rm` is issued only after the answer "1".
C12_ThreeOutcomes ==
    (call = "restore" /\ choice # "-") =>
        /\ (\A i \in DOMAIN log : log[i].cmd = "rm" =>
                choice = "1" /\ log[i].arg = OriginalName)
        /\ (choice = "1") =>
               /\ container_name = OriginalName
               /\ pc \in {"r_rm", "r_cleanup", "done"} \/ RanOk("rm")
        /\ (choice = "2" /\ new_name # "") =>
               /\ container_name = new_name
               /\ cstate[OriginalName] # "absent"
               /\ pc # "r_rm"
        /\ (choice # "1" /\ ~(choice = "2" /\ new_name # "")) =>
               /\ \A i \in DOMAIN log : log[i].cmd \notin AfterConflictCmds
               /\ cstate[OriginalName] # "absent"
               /\ pc \in {"r_cleanup", "done"}
               /\ result = "False"

C12_Witness ==
    /\ call = "restore"
    /\ choice = "2"
    /\ new_name # ""
    /\ new_name # OriginalName
    /\ pc = "done"
    /\ result = "True"

\* C13: restore_container issues its commands in the order extract, conflict
\* resolution (`ps`, `rm`), volumes, `pull`, `run`: every import directly
\* follows the successful `volume create` of the same volume, every `volume
\* create` and import precedes `pull`, `ps` follows a successful extraction
\* and precedes `rm` and every volume command, and `run` is issued only
\* after a `pull` that succeeded in the same call.
C13_RestoreOrder ==
    (call = "restore") =>
        \A i \in DOMAIN log :
            /\ log[i].cmd = "import" =>
                  /\ i > 1
                  /\ log[i - 1].cmd = "volume_create"
                  /\ log[i - 1].ok
                  /\ log[i - 1].arg = log[i].arg
            /\ log[i].cmd = "pull" =>
                  \A j \in DOMAIN log :
                      log[j].cmd \in {"ps", "rm", "volume_create", "import"} => j < i
            /\ log[i].cmd \in {"rm", "volume_create"} =>
                  \E j \in 1..(i - 1) : log[j].cmd = "ps" /\ log[j].ok
            /\ log[i].cmd = "volume_create" =>
                  \A j \in DOMAIN log : log[j].cmd = "rm" => j < i
            /\ log[i].cmd = "ps" =>
                  \E j \in 1..(i - 1) : log[j].cmd = "extract" /\ log[j].ok
            /\ log[i].cmd = "run" =>
                  \E j \in 1..(i - 1) : log[j].cmd = "pull" /\ log[j].ok

C13_Witness ==
    /\ call = "restore"
    /\ pc = "done"
    /\ RanOk("rm")
    /\ Cardinality({i \in DOMAIN log : log[i].cmd = "import" /\ log[i].ok}) = 2
    /\ RanOk("run")

\* The steps restore_container takes; none of them removes a volume.
RestoreCmds ==
    {"mktemp", "extract", "ps", "rm", "volume_create", "import", "pull", "run", "cleanup"}

\* C14: when `pull` or `run` fails after a volume was imported,
\* restore_container returns False and rolls nothing back: every volume it
\* created is still there, no step of a restore removes a volume or a file
\* of a volume, and no step other than those of RestoreCmds is taken.
C14_NoRollback ==
    /\ []((call = "restore" /\ RanOk("import") /\ (RanFailed("pull") \/ RanFailed("run"))) =>
            /\ result # "True"
            /\ pc = "done" => result = "False"
            /\ \A i \in DOMAIN log :
                  /\ log[i].cmd \in RestoreCmds
                  /\ (log[i].cmd = "volume_create" /\ log[i].ok) => log[i].arg \in volumes)
    /\ [][call = "restore" =>
            /\ volumes \subseteq volumes'
            /\ \A v \in VNames : vdata[v] \subseteq vdata'[v]]_vars

C14_Witness ==
    /\ call = "restore"
    /\ pc = "done"
    /\ RanOk("import")
    /\ RanFailed("run")
    /\ result = "False"

\* C15: when the archive of a container whose mounts are the volumes v1 and
\* v2 is restored under a new container name and the restore returns True,
\* the restored container mounts v1 and v2, each at the destination the
\* config document records, and v1 and v2 each hold exactly the files of
\* their snapshot.
C15_VolumeRoundTrip ==
    (/\ call = "restore"
     /\ pc = "done"
     /\ result = "True"
     /\ choice = "2"
     /\ container_name # Lstrip(archives[backup_path].tree.config.Name)
     /\ MountVolumes(archives[backup_path].tree.config.Mounts) = {"v1", "v2"}) =>
        LET a == archives[backup_path] IN
        /\ cmounts[container_name] = a.tree.config.Mounts
        /\ {"v1", "v2"} \subseteq volumes
        /\ \A v \in {"v1", "v2"} : vdata[v] = a.tree.data[v]

\* C16: when restore_container goes on under a new container name, a snapshot
\* is restored under a name other than its own only if its own name is the
\* name of the backed-up container: the `volume create` of every other
\* snapshot names the volume the snapshot was taken from.
C16_RemapOnlyContainerNamed ==
    (/\ call = "restore"
     /\ pc = "r_import"
     /\ choice = "2"
     /\ container_name # Lstrip(container_info.Name)
     /\ volume_dir # Lstrip(container_info.Name)) =>
        /\ log[Len(log)].cmd = "volume_create"
        /\ log[Len(log)].arg = volume_dir

\* The volume mounts of the restored config document that have no snapshot
\* directory in the archive.
MissingSnapshots ==
    MountVolumes(archives[backup_path].tree.config.Mounts) \ archives[backup_path].tree.dirs

\* C17: when the config document of the archive lists a volume mount that has
\* no snapshot directory, a restore whose commands all succeed still pulls
\* the image, creates the container and returns True, and it prints a line
\* that names the volume whose snapshot is missing.
C17_MissingSnapshotReported ==
    (/\ call = "restore"
     /\ pc = "done"
     /\ RanOk("ps")
     /\ \A i \in DOMAIN log : log[i].ok
     /\ choice \in {"-", "1"}
     /\ MissingSnapshots # {}) =>
        /\ RanOk("pull")
        /\ RanOk("run")
        /\ result = "True"
        /\ \A v \in MissingSnapshots : \E l \in console : l.arg = v

\* The `run` of this restore call was issued: run_cmd is the argument list.
RunIssued == call = "restore" /\ Ran("run")

\* The arguments of one kind, in the order they have in run_cmd.
Group(kind) == SelectSeq(run_cmd, LAMBDA a : a.kind = kind)

\* The place of a kind of argument in the order of the claim.
Rank(kind) ==
    CASE kind = "run" -> 0
      [] kind = "-d" -> 0
      [] kind = "--name" -> 1
      [] kind = "--restart" -> 2
      [] kind = "-p" -> 3
      [] kind = "-v" -> 4
      [] kind = "-e" -> 5
      [] kind = "--network" -> 6
      [] kind = "--label" -> 7
      [] kind = "image" -> 8
      [] kind = "cmd" -> 9

\* The (container port, host port) pairs of the restored document, in
\* document order: the bindings of the first container port, then of the next.
DocBindings ==
    LET items == container_info.PortBindings.items
        Before(k) == LET F[j \in 0..Len(items)] ==
                             IF j = 0 THEN 0 ELSE F[j - 1] + Len(items[j].hosts)
                     IN  F[k - 1]
        Total == LET F[j \in 0..Len(items)] ==
                         IF j = 0 THEN 0 ELSE F[j - 1] + Len(items[j].hosts)
                 IN  F[Len(items)]
    IN  [n \in 1..Total |->
            LET k == CHOOSE k \in 1..Len(items) :
                        Before(k) < n /\ n <= Before(k) + Len(items[k].hosts)
            IN  [port |-> items[k].port, host |-> items[k].hosts[n - Before(k)]]]

\* C18: the argument list restore_container hands to `run` has its groups in
\* the order container name, restart policy, port bindings, mounts,
\* environment, network mode, labels, image, command; the name and the image
\* appear once; and the port, mount, environment and label flags follow the
\* order of the document.
C18_ArgumentOrder ==
    RunIssued =>
        /\ \A i, j \in DOMAIN run_cmd : i < j => Rank(run_cmd[i].kind) <= Rank(run_cmd[j].kind)
        /\ Group("--name") = << [kind |-> "--name", x |-> container_name, y |-> "", host |-> <<>>] >>
        /\ Group("image") = << [kind |-> "image", x |-> image, y |-> "", host |-> <<>>] >>
        /\ LET ps == Group("-p") IN
             port_choice \in {"1", "2"} =>
               /\ Len(ps) = Len(DocBindings)
               /\ \A i \in DOMAIN ps : ps[i].y = DocBindings[i].port
        /\ LET vs == Group("-v")
               ms == container_info.Mounts
           IN  /\ Len(vs) = Len(ms)
               /\ \A i \in DOMAIN vs :
                     /\ vs[i].y = ms[i].Destination
                     /\ vs[i].x = IF ms[i].Type = "volume" THEN ms[i].Name ELSE ms[i].Source
        /\ LET es == Group("-e") IN
               /\ Len(es) = Len(container_info.Env)
               /\ \A i \in DOMAIN es : es[i].x = container_info.Env[i]
        /\ LET ls == Group("--label")
               items == container_info.Labels.items
           IN  /\ Len(ls) = Len(items)
               /\ \A i \in DOMAIN ls : ls[i].x = items[i].label /\ ls[i].y = items[i].value

C18_Witness ==
    /\ RunIssued
    /\ pc = "done"
    /\ result = "True"
    /\ Len(Group("-p")) = 3
    /\ Len(Group("-v")) = 2
    /\ Len(Group("-e")) = 2
    /\ Len(Group("--label")) = 2
    /\ Len(Group("cmd")) = 2
    /\ Group("--restart") # <<>>
    /\ Group("--network") # <<>>

\* The archive of C19: container web with the bind mount /data -> /app/data,
\* the environment ["X=1"] and the port binding 8080/tcp -> host port 8080,
\* restored with the original ports.
WebScenario ==
    /\ RunIssued
    /\ container_info.Name = InspectName("web")
    /\ container_info.Mounts = << BindMount("/data", "/app/data") >>
    /\ container_info.Env = << "X=1" >>
    /\ container_info.PortBindings = Some(<< Binding("8080/tcp", << P8080 >>) >>)
    /\ port_choice = "1"

\* run_cmd holds the three arguments in this order.
InOrder(a, b, c) ==
    \E i, j, k \in DOMAIN run_cmd :
        i < j /\ j < k /\ run_cmd[i] = a /\ run_cmd[j] = b /\ run_cmd[k] = c

\* C19 as stated: the restore of that archive with the original ports hands
\* `run` arguments that contain, in this order, `-p 8080:8080`,
\* `-v /data:/app/data` and `-e X=1`, and issues no `volume create`.
C19_WebArguments ==
    WebScenario =>
        /\ InOrder([kind |-> "-p", x |-> "", y |-> "8080", host |-> P8080],
                   [kind |-> "-v", x |-> "/data", y |-> "/app/data", host |-> <<>>],
                   [kind |-> "-e", x |-> "X=1", y |-> "", host |-> <<>>])
        /\ ~Ran("volume_create")

\* C19 amended: the arguments contain, in this order, `-p 8080:8080/tcp` (the
\* container port is the key of the port binding, protocol included),
\* `-v /data:/app/data` and `-e X=1`, and no `volume create` is issued.
C19_WebArgumentsWithProtocol ==
    WebScenario =>
        /\ InOrder([kind |-> "-p", x |-> "", y |-> "8080/tcp", host |-> P8080],
                   [kind |-> "-v", x |-> "/data", y |-> "/app/data", host |-> <<>>],
                   [kind |-> "-e", x |-> "X=1", y |-> "", host |-> <<>>])
        /\ ~Ran("volume_create")

C19_Witness ==
    /\ WebScenario
    /\ pc = "done"
    /\ result = "True"

\* C20: the -p flags of the argument list follow the answer to the port
\* prompt: after "1" there is exactly one `-p <host port>:<container port>`
\* per host binding of the document; after "2" exactly one
\* `-p <new port>:<container port>` per host binding, with the ports the
\* user supplied; after any other answer, and when the prompt was not shown
\* because the document has no port binding, there is no -p flag.
C20_PortPolicy ==
    RunIssued =>
        LET ps == Group("-p") IN
        /\ port_choice = "1" =>
              /\ Len(ps) = Len(DocBindings)
              /\ \A i \in DOMAIN ps :
                    ps[i] = [kind |-> "-p", x |-> "", y |-> DocBindings[i].port,
                             host |-> DocBindings[i].host]
        /\ port_choice = "2" =>
              /\ Len(ps) = Len(DocBindings)
              /\ Len(new_ports) = Len(DocBindings)
              /\ \A i \in DOMAIN ps :
                    ps[i] = [kind |-> "-p", x |-> "", y |-> DocBindings[i].port,
                             host |-> new_ports[i]]
        /\ port_choice \notin {"1", "2"} => ps = <<>>
        /\ port_choice = "-" <=>
              (container_info.PortBindings.has # "value" \/ container_info.PortBindings.items = <<>>)

C20_Witness ==
    /\ RunIssued
    /\ pc = "done"
    /\ result = "True"
    /\ port_choice = "2"
    /\ Len(new_ports) = 3
    /\ new_ports[1] # new_ports[2]

\* The volume a snapshot was restored into, the snapshot's own name when none
\* was restored.
Target(v) ==
    IF \E m \in volume_map : m[1] = v
    THEN (CHOOSE m \in volume_map : m[1] = v)[2]
    ELSE v

\* C21: in the arguments handed to `run`, every mount of the archived
\* document appears as one -v flag, in order: a mount of type 'volume' as
\* `-v <name>:<destination>`, <name> being the volume its snapshot was
\* restored into and the original name when it has no snapshot; a mount of
\* type 'bind' as `-v <source>:<destination>` with the archived host path.
C21_MountFlags ==
    RunIssued =>
        LET orig == archives[backup_path].tree.config.Mounts
            vs == Group("-v")
        IN  /\ Len(vs) = Len(orig)
            /\ \A i \in DOMAIN vs :
                  /\ vs[i].kind = "-v"
                  /\ vs[i].y = orig[i].Destination
                  /\ vs[i].x = IF orig[i].Type = "bind" THEN orig[i].Source
                               ELSE Target(orig[i].Name)

C21_Witness ==
    /\ RunIssued
    /\ pc = "done"
    /\ result = "True"
    /\ volume_map = { <<"v1", "app">> }
    /\ Group("-v") = << [kind |-> "-v", x |-> "/data", y |-> "/app/data", host |-> <<>>],
                        [kind |-> "-v", x |-> "app", y |-> "/d1", host |-> <<>>] >>

\* The arguments that follow the image in run_cmd.
AfterImage ==
    LET at == CHOOSE i \in DOMAIN run_cmd : run_cmd[i].kind = "image"
    IN  SubSeq(run_cmd, at + 1, Len(run_cmd))

\* C22: when the restored document has a non-empty Entrypoint, the arguments
\* handed to `run` hold `--entrypoint <first element>` before the image and
\* end with the command words; when the document has neither an entrypoint
\* nor a command, nothing follows the image.
C22_EntrypointCarried ==
    RunIssued =>
        LET ep == container_info.Entrypoint.items
            cmd == container_info.Cmd.items
        IN  /\ ep # <<>> =>
                 /\ Group("--entrypoint") =
                        << [kind |-> "--entrypoint", x |-> ep[1], y |-> "", host |-> <<>>] >>
                 /\ Len(AfterImage) >= Len(cmd)
                 /\ \A i \in DOMAIN cmd :
                       AfterImage[Len(AfterImage) - Len(cmd) + i].x = cmd[i]
            /\ (ep = <<>> /\ cmd = <<>>) => AfterImage = <<>>

\* C23: the arguments handed to `run` hold `--restart <name>` if and only if
\* the restored document has a restart policy whose name is there and is
\* neither empty nor 'no', the policy the runtime applies by itself.
C23_RestartFlag ==
    RunIssued =>
        LET policy == container_info.RestartPolicy
            named == policy.has = "value" /\ policy.items # <<>>
                     /\ policy.items[1] \notin {"", "no"}
        IN  /\ named =>
                 Group("--restart") =
                     << [kind |-> "--restart", x |-> policy.items[1], y |-> "", host |-> <<>>] >>
            /\ ~named => Group("--restart") = <<>>

\* C24: the arguments handed to `run` hold `--network <mode>` if and only if
\* the restored document has a network mode other than 'default'; a
\* document whose mode is 'default', or that has none, gives no --network.
C24_NetworkFlag ==
    RunIssued =>
        LET mode == container_info.NetworkMode
            given == mode.has = "value" /\ mode.items[1] # "default"
        IN  /\ given =>
                 Group("--network") =
                     << [kind |-> "--network", x |-> mode.items[1], y |-> "", host |-> <<>>] >>
            /\ ~given => Group("--network") = <<>>

C24_Witness ==
    /\ RunIssued
    /\ pc = "done"
    /\ result = "True"
    /\ container_info.NetworkMode = Some(<< "default" >>)
    /\ Group("--network") = <<>>

\* The user is still being asked for new ports, or was when the call ended.
AskingPorts == port_choice = "2" /\ Len(new_ports) < Len(DocBindings)

\* C25: building the arguments of `run` never raises, whatever optional keys
\* of the restored document are absent, empty or null: a restore whose
\* `pull` succeeded and whose port prompts were answered does not end
\* without having issued `run`.
C25_SynthesisTotal ==
    (/\ call = "restore"
     /\ RanOk("pull")
     /\ pc \in {"r_cleanup", "done"}
     /\ ~AskingPorts) => Ran("run")

OwnArchive == backup_path[1] \in CNames /\ cstate[backup_path[1]] # "absent"

\* C27: the document restore_container decodes from the config.json that
\* backup_container wrote equals the document inspect returned, whatever the
\* strings in it: right after decoding, container_info is the inspect
\* document of the container the archive was taken from.
C27_ConfigRoundTrip ==
    (call = "restore" /\ pc = "r_ps" /\ OwnArchive) =>
        container_info \in InspectResults(backup_path[1])

\* Instance p is inside its stop/export/start bracket: its `stop` has
\* succeeded and its `start` has not been run yet.
InBracket(p) == procs[p].pc \in {"b_loop", "b_mkdir_volume", "b_export", "b_start"}

\* C28: two simultaneous backup_container calls for one container are
\* serialized: their stop/export/start brackets never overlap, and no export
\* helper of one call is about to copy a volume while the container runs
\* again because the other call has started it.
C28_BracketsSerialized ==
    /\ ~(InBracket(1) /\ InBracket(2))
    /\ \A p \in Procs : procs[p].pc = "b_export" => cstate[RaceName] # "running"

\* The step is a 'Delete backup' of the archive at p that the user confirmed.
DeletedByUser(p) == call' = "delete" /\ backup_path' = p /\ result' = "True"

\* C29: an archive is read-only once written: every step of every call and
\* menu action leaves each existing archive file as it is, except the
\* 'Delete backup' action the user confirmed, which removes it.
C29_ArchivesReadOnly ==
    [][\A p \in DOMAIN archives :
          \/ p \in DOMAIN archives' /\ archives'[p] = archives[p]
          \/ DeletedByUser(p) /\ p \notin DOMAIN archives']_vars

\* A step of the call has failed.
StepFailed == \E i \in DOMAIN log : ~log[i].ok

\* The call has printed its success line (272, 439), or has returned True,
\* on which backup_menu prints its own (menu_handlers.py 240-241, 259-261).
SuccessShown ==
    \/ result = "True"
    \/ \E l \in console : l.text \in {"Backup created", "restored successfully"}

\* C30: no success confirmation goes with a failed step: a call of
\* backup_container or restore_container that has printed its success line
\* or returned True has no failed command or filesystem step.
C30_NoSuccessAfterFailure ==
    (call \in {"backup", "restore"} /\ SuccessShown) => ~StepFailed

\* C31: no runtime operation is retried: every command goes through
\* run_docker_command once, and within one call a runtime command that
\* failed is not issued again (same command, same argument).
C31_NoRetry ==
    \A i, j \in DOMAIN log :
        (i < j /\ log[i].cmd \in RuntimeCmds /\ ~log[i].ok) =>
            ~(log[j].cmd = log[i].cmd /\ log[j].arg = log[i].arg)

\* A backup whose `stop` failed has returned, and so has gone through its
\* handlers.
C31_Witness ==
    /\ call = "backup"
    /\ pc = "done"
    /\ RanFailed("stop")
    /\ result = "False"

\* The version check `cmd` was made and returned a non-empty text.
Versioned(cmd) == \E i \in DOMAIN log : log[i].cmd = cmd /\ log[i].arg = "text"

\* C32: 'Check Docker installation' makes both checks every time it is
\* selected, and reports each product as installed if and only if its
\* version command returned a non-empty text, as not installed otherwise,
\* the Compose report not depending on the Docker result.
C32_BothChecksReported ==
    (call = "check" /\ pc = "done") =>
        /\ Ran("docker_version")
        /\ Ran("compose_version")
        /\ Line("is installed", "Docker") \in console <=> Versioned("docker_version")
        /\ Line("is not installed", "Docker") \in console <=> ~Versioned("docker_version")
        /\ Line("is installed", "Docker Compose") \in console <=> Versioned("compose_version")
        /\ Line("is not installed", "Docker Compose") \in console <=> ~Versioned("compose_version")

\* Instance p has created the scratch directory (216-217) and has not yet
\* archived it (258-263).
ScratchInUse(p) ==
    procs[p].pc \in {"b_write_config", "b_mkdir_volumes", "b_stop", "b_loop",
                     "b_mkdir_volume", "b_export", "b_start", "b_tar"}

\* C33: the scratch directory of a backup_container call is private to the
\* call: from its creation to its archiving, no step of another backup that
\* runs at the same time deletes it or writes into it.
C33_ScratchPrivate ==
    [][\A p \in Procs :
          (ScratchInUse(p) /\ procs'[p] = procs[p]) => btemp' = btemp]_vars

\* The volume phase of the backup call (236-256) is over.
VolumePhaseOver == pc \in {"b_tar", "b_chown", "b_cleanup", "done"}

\* C34: the `start` that closes the volume phase is unconditional: in the
\* first backup of a container that has mounts and was stopped when the call
\* was made, once `stop` has succeeded the volume phase is not left without
\* a `start`, and a `start` that succeeds leaves the container running for
\* the rest of the call.
C34_StoppedContainerStarted ==
    (call = "backup" /\ ncalls = 1 /\ RanOk("stop")) =>
        /\ VolumePhaseOver => Ran("start")
        /\ RanOk("start") => cstate[container_name] = "running"

C34_Witness ==
    /\ call = "backup"
    /\ ncalls = 1
    /\ pc = "done"
    /\ result = "True"
    /\ RanOk("stop")
    /\ RanOk("start")
    /\ cstate[container_name] = "running"

\* How many times the call has run the command so far.
Times(cmd) == Cardinality({ i \in DOMAIN log : log[i].cmd = cmd })

\* C35: one backup_container call runs `stop` at most once and `start` at
\* most once; `start` is run only after a `stop` that succeeded, and is run
\* before the volume phase is left whenever `stop` succeeded; when `stop`
\* fails the call runs no export helper, no `start` and no archive step and
\* returns False.
C35_StopStartPairing ==
    (call = "backup") =>
        /\ Times("stop") <= 1
        /\ Times("start") <= 1
        /\ Ran("start") => RanOk("stop")
        /\ (RanOk("stop") /\ VolumePhaseOver) => Ran("start")
        /\ RanFailed("stop") =>
              /\ ~Ran("export")
              /\ ~Ran("start")
              /\ ~Ran("tar")
              /\ result # "True"
              /\ pc = "done" => result = "False"

C35_Witness ==
    /\ call = "backup"
    /\ pc = "done"
    /\ RanFailed("stop")
    /\ ~Ran("start")
    /\ ~Ran("tar")
    /\ RanOk("cleanup")
    /\ cstate[container_name] = "running"
    /\ result = "False"

\* C36: when the `start` that closes the volume phase fails, the backup
\* fails even if every export succeeded: no archive step is run, the call
\* does not return True and returns False, the snapshots go with the scratch
\* directory once its removal succeeds, and the container stays stopped.
C36_StartFailureFailsBackup ==
    (call = "backup" /\ RanFailed("start")) =>
        /\ ~Ran("tar")
        /\ result # "True"
        /\ cstate[container_name] = "stopped"
        /\ pc = "done" =>
              /\ result = "False"
              /\ RanOk("cleanup") => ~btemp.exists

C36_Witness ==
    /\ call = "backup"
    /\ pc = "done"
    /\ RanOk("export")
    /\ ~RanFailed("export")
    /\ RanFailed("start")
    /\ RanOk("cleanup")
    /\ ~btemp.exists
    /\ result = "False"

\* C37: when restore_container is about to issue `run`, the name it passes
\* to `--name` is the name of no existing container, whichever way the name
\* conflict was resolved, a new name the user entered included.
C37_NameFree ==
    (call = "restore" /\ pc = "r_run") => cstate[container_name] = "absent"

\* C38: under 'map to different ports' every host port of a `-p` argument is
\* a decimal integer from 1 to 65535, and an answer that is not one is
\* refused and asked for again: the call is at no step other than the
\* new-port prompt before every binding has its valid port.
C38_PortsValidated ==
    (call = "restore" /\ port_choice = "2") =>
        /\ \A i \in DOMAIN run_cmd :
              run_cmd[i].kind = "-p" =>
                  /\ \A k \in DOMAIN run_cmd[i].host : run_cmd[i].host[k] \in DOMAIN DigitValue
                  /\ MinPort <= IntOf(run_cmd[i].host)
                  /\ IntOf(run_cmd[i].host) <= MaxPort
        /\ AskingPorts => pc = "r_new_port"

\* C39: delete_container is gated by its confirmations: `rm -f` is run only
\* after the user confirmed the deletion; when the user declines, the call
\* returns False and the container and its volumes are as they were; and
\* `volume rm` is run only after the removal of the container succeeded and
\* the user confirmed the clean-up, and only for a mount of type 'volume'
\* of the deleted container.
C39_DeletionConfirmed ==
    (call = "delete_container") =>
        /\ \A i \in DOMAIN log :
              /\ log[i].cmd = "rm" =>
                    \E j \in 1..(i - 1) : log[j].cmd = "ask_delete" /\ log[j].ok
              /\ log[i].cmd = "volume_rm" =>
                    /\ \E j \in 1..(i - 1) : log[j].cmd = "rm" /\ log[j].ok
                    /\ \E j \in 1..(i - 1) : log[j].cmd = "ask_volumes" /\ log[j].ok
                    /\ \E k \in DOMAIN output.Mounts :
                          /\ output.Mounts[k].Type = "volume"
                          /\ output.Mounts[k].Name = log[i].arg
        /\ RanFailed("ask_delete") =>
              /\ ~Ran("rm")
              /\ ~Ran("volume_rm")
              /\ pc = "done"
              /\ result = "False"
              /\ cstate[container_name] # "absent"
              /\ cmounts[container_name] = output.Mounts
              /\ VolumeNames(output.Mounts) \subseteq volumes

C39_Witness ==
    /\ call = "delete_container"
    /\ pc = "done"
    /\ result = "True"
    /\ Len(output.Mounts) = 2
    /\ output.Mounts[1].Type = "bind"
    /\ RanOk("ask_delete")
    /\ RanOk("rm")
    /\ RanOk("ask_volumes")
    /\ Times("volume_rm") = 1
    /\ RanOk("volume_rm")
    /\ "v1" \notin volumes
====
